---- MODULE Spec2Model ----
(***************************************************************************)
(* A model of mailwebadmin: the validation utilities (validate.go), the    *)
(* REST-like resource handlers (api.go), the data layer (mail_sql.go) and  *)
(* the login / session middleware (admin.go).                              *)
(*                                                                         *)
(* Strings are sequences of code points; a code point is a one-character   *)
(* TLA+ string.  A Go error value is a string, nil is the string "nil".    *)
(***************************************************************************)
EXTENDS Integers, Sequences, FiniteSets, TLC

VARIABLES
    valIn,      \* validation harness: the string handed to a validator
    valOut,     \* validation harness: the validator applied and its error
    domains,    \* table virtual_domains: id -> name
    users,      \* table virtual_users:   id -> [email, domain_id, password]
    aliases,    \* table virtual_aliases: id -> [source, destination, domain_id]
    nextId,     \* the next auto-increment id of each table
    admins,     \* goauth user table: username -> [id, password]
    nextAdminId,\* the next auto-increment id of the goauth user table
    sessions,   \* goauth session table: key -> [user, expired]
    nextKey,    \* the next fresh session key
    config,     \* appContext.Delete and appContext.Backup
    tasks,      \* goroutines started by delete requests
    fs,         \* the disk: the mail directories and the zip files there are
    up,         \* the serving process is running
    last,       \* the last request served and the response it got
    inflight,   \* requests part-way through their handler
    ended       \* history: the sessions that admin requests were to end

vars == <<valIn, valOut, domains, users, aliases, nextId, admins, nextAdminId,
          sessions, nextKey, config, tasks, fs, up, last, inflight, ended>>

apiVars == <<domains, users, aliases, nextId, config, tasks, fs, up>>
authVars == <<admins, nextAdminId, sessions, nextKey, inflight, ended>>
valVars == <<valIn, valOut>>

-----------------------------------------------------------------------------
(* Strings *)

nil == "nil"

Rep(c, n) == [i \in 1..n |-> c]

\* x is an element of the sequence
Has(seq, x) == \E k \in 1..Len(seq) : seq[k] = x

\* strings.Contains(s, sub)
Contains(s, sub) ==
    \E i \in 1..(Len(s) - Len(sub) + 1) : SubSeq(s, i, i + Len(sub) - 1) = sub

\* all strings over alphabet of length at most n
StringsUpTo(alphabet, n) == UNION {[1..k -> alphabet] : k \in 0..n}

Lower == {"a", "b", "c", "d", "e", "f", "g", "h", "i", "j", "k", "l", "m",
          "n", "o", "p", "q", "r", "s", "t", "u", "v", "w", "x", "y", "z"}
Upper == {"A", "B", "C", "D", "E", "F", "G", "H", "I", "J", "K", "L", "M",
          "N", "O", "P", "Q", "R", "S", "T", "U", "V", "W", "X", "Y", "Z"}
Digit == {"0", "1", "2", "3", "4", "5", "6", "7", "8", "9"}

\* the UTF-8 encoding of an ASCII code point is one byte; the model's one
\* non-ASCII code point is written "U+00E9" and takes two bytes
Utf8Width(c) == IF c = "U+00E9" THEN 2 ELSE 1

\* len(s): the number of bytes of a Go string
RECURSIVE ByteLen(_)
ByteLen(s) == IF s = <<>> THEN 0 ELSE Utf8Width(Head(s)) + ByteLen(Tail(s))

\* utf8.RuneCountInString(s)
RuneCountInString(s) == Len(s)

-----------------------------------------------------------------------------
(* validate.go *)

passwordValidBytes(password) ==
    LET len == ByteLen(password) IN
    IF len < 6 THEN "Password must be at least of length 6"
    ELSE IF len > 30 THEN "Password length must be at most 30"
    ELSE nil

passwordValid(password) ==
    LET len == RuneCountInString(password) IN
    IF len < 6 THEN "Password must be at least of length 6"
    ELSE IF len > 30 THEN "Password length must be at most 30"
    ELSE nil

ErrInvalidParts == "string contains one of the following invalid substrings"

containsInvalidParts(s) ==
    IF Contains(s, <<".", ".">>) \/ Contains(s, <<"/">>) \/ Contains(s, <<"\\">>)
    THEN ErrInvalidParts ELSE nil

domainNameValidOffByOne(name) ==
    IF containsInvalidParts(name) # nil THEN containsInvalidParts(name)
    ELSE IF RuneCountInString(name) > 51 THEN "Domain name must be at most 50."
    ELSE nil

domainNameValid(name) ==
    IF containsInvalidParts(name) # nil THEN containsInvalidParts(name)
    ELSE IF RuneCountInString(name) > 50 THEN "Domain name must be at most 50."
    ELSE nil

\* the character classes of mailRegexp
MailLocalClass == Lower \cup Upper \cup Digit \cup {"_", ".", "+", "-"}
MailLabelClass == Lower \cup Upper \cup Digit \cup {"-"}
MailRestClass == Lower \cup Upper \cup Digit \cup {"-", "."}

\* mailRegexp.FindStringSubmatch(mail) != nil for
\* ^([a-zA-Z0-9_.+-]+@[a-zA-Z0-9-]+\.[a-zA-Z0-9-.]+$)
mailRegexpNoDot(mail) ==
    \E i \in 2..Len(mail) :
        /\ mail[i] = "@"
        /\ \A k \in 1..(i - 1) : mail[k] \in MailLocalClass
        /\ i < Len(mail)
        /\ \A k \in (i + 1)..Len(mail) : mail[k] \in MailRestClass

mailRegexp(mail) ==
    \E i \in 2..Len(mail) :
        /\ mail[i] = "@"
        /\ \A k \in 1..(i - 1) : mail[k] \in MailLocalClass
        /\ \E j \in (i + 2)..(Len(mail) - 1) :
              /\ mail[j] = "."
              /\ \A k \in (i + 1)..(j - 1) : mail[k] \in MailLabelClass
              /\ \A k \in (j + 1)..Len(mail) : mail[k] \in MailRestClass

ErrInvalidEmail == "Invalid Email address"

emailValid(mail) ==
    IF containsInvalidParts(mail) # nil THEN containsInvalidParts(mail)
    ELSE IF ~mailRegexp(mail) THEN ErrInvalidEmail
    ELSE IF RuneCountInString(mail) > 100 THEN "Email length must be at most 100."
    ELSE nil

adminNameValid(user) ==
    IF RuneCountInString(user) > 150 THEN "Username length must be at most 150."
    ELSE nil

-----------------------------------------------------------------------------
(* Validation harness: a validator applied to one input string *)

MaxShort == 5
MaxPwLen == 32
NameOver == 2

Pending == [fn |-> "none", err |-> nil]

MailAlphabet == {"a", "@", ".", "U+00E9"}
MailPads == {0} \cup {100 - k : k \in 3..5}
MailInputs ==
    {Rep("a", n) \o s : n \in MailPads, s \in StringsUpTo(MailAlphabet, MaxShort)}

PasswordInputs == {Rep(c, n) : c \in {"a", "U+00E9"}, n \in 0..MaxPwLen}

NameAlphabet == {"a", ".", "/", "\\"}
NamePads == {0} \cup (48..(50 + NameOver))
NameInputs ==
    {Rep(c, n) \o s : c \in {"a", "U+00E9"}, n \in NamePads,
                      s \in StringsUpTo(NameAlphabet, 2)}

ValInputs == MailInputs \cup PasswordInputs \cup NameInputs

ValInit ==
    /\ valIn \in ValInputs
    /\ valOut = Pending

ApplyPasswordValid ==
    /\ valOut = Pending
    /\ valOut' = [fn |-> "passwordValid", err |-> passwordValid(valIn)]
    /\ UNCHANGED <<valIn, apiVars, authVars, last>>

ApplyEmailValid ==
    /\ valOut = Pending
    /\ valOut' = [fn |-> "emailValid", err |-> emailValid(valIn)]
    /\ UNCHANGED <<valIn, apiVars, authVars, last>>

ApplyDomainNameValid ==
    /\ valOut = Pending
    /\ valOut' = [fn |-> "domainNameValid", err |-> domainNameValid(valIn)]
    /\ UNCHANGED <<valIn, apiVars, authVars, last>>

-----------------------------------------------------------------------------
(* api.go: request URLs *)

(* A URL path is a sequence whose first element is the literal text up to   *)
(* (not including) the slash that follows the resource name, and whose      *)
(* other elements are single code points: "/api/domains/12" is              *)
(* <<"/api/domains", "/", "1", "2">>.  A raw query is a sequence of         *)
(* [key, value] pairs.                                                      *)

\* \w of Go's regexp (RE2): [0-9A-Za-z_]
WordClass == Lower \cup Upper \cup Digit \cup {"_"}

DigitVal == [c \in Digit |-> CHOOSE n \in 0..9 : ToString(n) = c]

RECURSIVE StripZeros(_)
StripZeros(ds) ==
    IF Len(ds) > 1 /\ Head(ds) = "0" THEN StripZeros(Tail(ds)) ELSE ds

\* the decimal digits of math.MaxInt64 = 9223372036854775807
MaxInt64Digits ==
    <<"9", "2", "2", "3", "3", "7", "2", "0", "3", "6", "8", "5", "4", "7", "7",
      "5", "8", "0", "7">>

\* a <= b for two digit strings of the same length
RECURSIVE DigitsLeq(_, _)
DigitsLeq(a, b) ==
    IF a = <<>> THEN TRUE
    ELSE IF DigitVal[Head(a)] < DigitVal[Head(b)] THEN TRUE
    ELSE IF DigitVal[Head(a)] > DigitVal[Head(b)] THEN FALSE
    ELSE DigitsLeq(Tail(a), Tail(b))

RECURSIVE DigitsValue(_)
DigitsValue(ds) ==
    IF ds = <<>> THEN 0
    ELSE 10 * DigitsValue(SubSeq(ds, 1, Len(ds) - 1)) + DigitVal[ds[Len(ds)]]

\* an id that fits int64 and is larger than every id a table of the model
\* ever assigns stands for all of them
BeyondTables == 1000000000

\* strconv.ParseInt(s, 10, 64) of an unsigned digit string
ParseInt(ds) ==
    IF ds = <<>> \/ \E k \in 1..Len(ds) : ds[k] \notin Digit
    THEN [val |-> 0, err |-> "strconv.ParseInt: invalid syntax"]
    ELSE LET n == StripZeros(ds) IN
         IF Len(n) > 19 \/ (Len(n) = 19 /\ ~DigitsLeq(n, MaxInt64Digits))
         THEN [val |-> 0, err |-> "strconv.ParseInt: value out of range"]
         ELSE IF Len(n) <= 9 THEN [val |-> DigitsValue(n), err |-> nil]
         ELSE [val |-> BeyondTables, err |-> nil]

NoMatch == <<"no match">>

\* the submatch 2 of  ((class+)/?)?$  on rest, or NoMatch
OptionalId(rest, class) ==
    IF rest = <<>> THEN <<>>
    ELSE LET body == IF rest[Len(rest)] = "/"
                     THEN SubSeq(rest, 1, Len(rest) - 1) ELSE rest IN
         IF body # <<>> /\ \A k \in 1..Len(body) : body[k] \in class
         THEN body ELSE NoMatch

\* regex.FindStringSubmatch(url)[2] for  ^<resource>/((class+)/?)?$
SlashThenId(url, resource, class) ==
    IF Len(url) >= 2 /\ url[1] = resource /\ url[2] = "/"
    THEN OptionalId(SubSeq(url, 3, Len(url)), class)
    ELSE NoMatch

listDomainsRegex(url) == SlashThenId(url, "/api/domains", Digit)

listAliasRegx(url) == SlashThenId(url, "/api/aliases", Digit)

adminsAliasRegx(url) == SlashThenId(url, "/api/admins", WordClass)

\* the slash is inside the optional group:  ^/api/users(/(\d+)/?)?$
listUsersRegex(url) ==
    IF url = <<"/api/users">> THEN <<>>
    ELSE IF Len(url) >= 3 /\ url[1] = "/api/users" /\ url[2] = "/"
         THEN LET m == OptionalId(SubSeq(url, 3, Len(url)), Digit) IN
              IF m = <<>> THEN NoMatch ELSE m
         ELSE NoMatch

errNoID == "No id provided"

\* parseIDFromURL, given the regex's submatch on the url
parseIDFromURLNoRangeCheck(res) ==
    IF res = NoMatch THEN [id |-> -1, err |-> "No match"]
    ELSE IF res = <<>> THEN [id |-> -1, err |-> errNoID]
    ELSE LET n == StripZeros(res) IN
         IF Len(n) <= 9 THEN [id |-> DigitsValue(n), err |-> nil]
         ELSE [id |-> BeyondTables, err |-> nil]

parseIDFromURL(res) ==
    IF res = NoMatch THEN [id |-> -1, err |-> "No match"]
    ELSE IF res = <<>> THEN [id |-> -1, err |-> errNoID]
    ELSE IF ParseInt(res).err # nil THEN [id |-> -1, err |-> ParseInt(res).err]
    ELSE [id |-> ParseInt(res).val, err |-> nil]

parseListDomainURL(url) == parseIDFromURL(listDomainsRegex(url))

parseListUsersURL(url) == parseIDFromURL(listUsersRegex(url))

parseListAliasesURL(url) == parseIDFromURL(listAliasRegx(url))

parseAdminListURL(url) ==
    IF adminsAliasRegx(url) = NoMatch THEN [name |-> <<>>, err |-> "No match"]
    ELSE [name |-> adminsAliasRegx(url), err |-> nil]

\* the text of a raw query: key=value pairs joined by "&"
RECURSIVE RawQuery(_)
RawQuery(pairs) ==
    IF pairs = <<>> THEN <<>>
    ELSE <<Head(pairs).key, "=">> \o Head(pairs).value
         \o (IF Len(pairs) > 1 THEN <<"&">> ELSE <<>>) \o RawQuery(Tail(pairs))

\* r.URL.String(): the path, and "?" and the raw query when there is one
URLString(r) ==
    IF r.query = <<>> THEN r.path ELSE r.path \o <<"?">> \o RawQuery(r.query)

\* r.URL.Path
URLPath(r) == r.path

\* r.URL.Query()[key]
RECURSIVE QueryValues(_, _)
QueryValues(pairs, key) ==
    IF pairs = <<>> THEN <<>>
    ELSE (IF Head(pairs).key = key THEN <<Head(pairs).value>> ELSE <<>>)
         \o QueryValues(Tail(pairs), key)

-----------------------------------------------------------------------------
(* mail_sql.go: the data layer.  db is the record of the three tables and   *)
(* their auto-increment counters; fail names the one call of the request    *)
(* that the database (or crypt) refuses, "none" when all succeed.           *)

InsertRow(table, id, row) ==
    [k \in (DOMAIN table) \cup {id} |-> IF k = id THEN row ELSE table[k]]

Remove(table, ids) == [k \in (DOMAIN table) \ ids |-> table[k]]

EmptyTable == [k \in {} |-> <<>>]

Min(S) == CHOOSE x \in S : \A y \in S : x <= y

ErrNoRows == "sql: no rows in result set"
ErrDB == "database error"

\* strings.Split(email, "@"): the positions of the separators
AtPositions(email) == {i \in 1..Len(email) : email[i] = "@"}

ParseMailParts(email) ==
    IF Cardinality(AtPositions(email)) # 1
    THEN [name |-> <<>>, domain |-> <<>>, err |-> "Invalid Email address"]
    ELSE LET at == Min(AtPositions(email)) IN
         IF SubSeq(email, at + 1, Len(email)) = <<>>
         THEN [name |-> <<>>, domain |-> <<>>,
               err |-> "Invalid Email address: Empty domain part"]
         ELSE [name |-> SubSeq(email, 1, at - 1),
               domain |-> SubSeq(email, at + 1, Len(email)), err |-> nil]

\* the stored form of a password: its salted SHA512-CRYPT hash
GenDovecotSHA512(password, fail) ==
    IF fail = "crypt" THEN [hash |-> <<>>, err |-> "crypt failed"]
    ELSE [hash |-> <<"{SHA512-CRYPT}">> \o password, err |-> nil]

AddVirtualDomainFirstFreeId(db, domain, fail) ==
    LET id == Min({k \in 1..db.nextId.domains : k \notin DOMAIN db.domains}) IN
    IF fail = "AddVirtualDomain" THEN [db |-> db, id |-> -1, err |-> ErrDB]
    ELSE [db |-> [db EXCEPT !.domains = InsertRow(@, id, domain),
                            !.nextId.domains = @ + 1],
          id |-> db.nextId.domains, err |-> nil]

AddVirtualDomain(db, domain, fail) ==
    IF fail = "AddVirtualDomain" THEN [db |-> db, id |-> -1, err |-> ErrDB]
    ELSE [db |-> [db EXCEPT !.domains = InsertRow(@, db.nextId.domains, domain),
                            !.nextId.domains = @ + 1],
          id |-> db.nextId.domains, err |-> nil]

\* res.RowsAffected() is called before err is looked at: when Exec fails res
\* is nil and the call panics.  Rows of virtual_users and virtual_aliases
\* reference the domain with ON DELETE CASCADE (the ISPmail schema the
\* README requires).
DeleteVirtualDomain(db, domainID, fail) ==
    IF fail = "DeleteVirtualDomain" THEN [db |-> db, err |-> nil, panic |-> TRUE]
    ELSE [db |-> [db EXCEPT
                    !.domains = Remove(@, {domainID}),
                    !.users = Remove(@, {k \in DOMAIN @ : @[k].domain_id = domainID}),
                    !.aliases = Remove(@, {k \in DOMAIN @ : @[k].domain_id = domainID})],
          err |-> nil, panic |-> FALSE]

getDomainID(db, domain, fail) ==
    LET rows == {k \in DOMAIN db.domains : db.domains[k] = domain} IN
    IF fail = "getDomainID" THEN [id |-> -1, err |-> ErrDB]
    ELSE IF rows = {} THEN [id |-> -1, err |-> ErrNoRows]
    ELSE [id |-> Min(rows), err |-> nil]

getDomainName(db, domainID, fail) ==
    IF fail = "getDomainName" THEN [name |-> <<>>, err |-> ErrDB]
    ELSE IF domainID \notin DOMAIN db.domains THEN [name |-> <<>>, err |-> ErrNoRows]
    ELSE [name |-> db.domains[domainID], err |-> nil]

getUserName(db, userID, fail) ==
    IF fail = "getUserName" THEN [name |-> <<>>, domain |-> <<>>, err |-> ErrDB]
    ELSE IF userID \notin DOMAIN db.users
    THEN [name |-> <<>>, domain |-> <<>>, err |-> ErrNoRows]
    ELSE ParseMailParts(db.users[userID].email)

\* virtual_users.email is a UNIQUE KEY of the schema
AddMailUserWithoutDomain(db, email, plaintextPW, fail) ==
    LET parts == ParseMailParts(email)
        pw == GenDovecotSHA512(plaintextPW, fail)
        dom == getDomainID(db, parts.domain, fail)
    IN
    IF emailValid(email) # nil THEN [db |-> db, id |-> -1, err |-> emailValid(email)]
    ELSE IF parts.err # nil THEN [db |-> db, id |-> -1, err |-> parts.err]
    ELSE IF pw.err # nil THEN [db |-> db, id |-> -1, err |-> pw.err]
    ELSE IF fail = "AddMailUser"
            \/ \E k \in DOMAIN db.users : db.users[k].email = email
    THEN [db |-> db, id |-> -1, err |-> ErrDB]
    ELSE [db |-> [db EXCEPT
                    !.users = InsertRow(@, db.nextId.users,
                        [email |-> email, domain_id |-> dom.id, password |-> pw.hash]),
                    !.nextId.users = @ + 1],
          id |-> db.nextId.users, err |-> nil]

AddMailUser(db, email, plaintextPW, fail) ==
    LET parts == ParseMailParts(email)
        pw == GenDovecotSHA512(plaintextPW, fail)
        dom == getDomainID(db, parts.domain, fail)
    IN
    IF emailValid(email) # nil THEN [db |-> db, id |-> -1, err |-> emailValid(email)]
    ELSE IF parts.err # nil THEN [db |-> db, id |-> -1, err |-> parts.err]
    ELSE IF pw.err # nil THEN [db |-> db, id |-> -1, err |-> pw.err]
    ELSE IF dom.err # nil THEN [db |-> db, id |-> -1, err |-> dom.err]
    ELSE IF fail = "AddMailUser"
            \/ \E k \in DOMAIN db.users : db.users[k].email = email
    THEN [db |-> db, id |-> -1, err |-> ErrDB]
    ELSE [db |-> [db EXCEPT
                    !.users = InsertRow(@, db.nextId.users,
                        [email |-> email, domain_id |-> dom.id, password |-> pw.hash]),
                    !.nextId.users = @ + 1],
          id |-> db.nextId.users, err |-> nil]

ChangeUserPassword(db, emailID, plaintextPW, fail) ==
    LET pw == GenDovecotSHA512(plaintextPW, fail) IN
    IF pw.err # nil THEN [db |-> db, err |-> pw.err]
    ELSE IF fail = "ChangeUserPassword" THEN [db |-> db, err |-> ErrDB]
    ELSE IF emailID \notin DOMAIN db.users
    THEN [db |-> db, err |-> "Update password failed: email id not found"]
    ELSE [db |-> [db EXCEPT !.users[emailID].password = pw.hash], err |-> nil]

DelMailUser(db, emailID, fail) ==
    IF fail = "DelMailUser" THEN [db |-> db, err |-> ErrDB]
    ELSE [db |-> [db EXCEPT !.users = Remove(@, {emailID})], err |-> nil]

AddAlias(db, source, destination, fail) ==
    LET src == ParseMailParts(source)
        dst == ParseMailParts(destination)
        dom == getDomainID(db, src.domain, fail)
    IN
    IF src.err # nil THEN [db |-> db, id |-> -1, err |-> src.err]
    ELSE IF emailValid(destination) # nil
    THEN [db |-> db, id |-> -1, err |-> emailValid(destination)]
    ELSE IF dst.err # nil THEN [db |-> db, id |-> -1, err |-> dst.err]
    ELSE IF dom.err # nil THEN [db |-> db, id |-> -1, err |-> dom.err]
    ELSE IF fail = "AddAlias" THEN [db |-> db, id |-> -1, err |-> ErrDB]
    ELSE [db |-> [db EXCEPT
                    !.aliases = InsertRow(@, db.nextId.aliases,
                        [source |-> source, destination |-> destination,
                         domain_id |-> dom.id]),
                    !.nextId.aliases = @ + 1],
          id |-> db.nextId.aliases, err |-> nil]

DelAlias(db, aliasID, fail) ==
    IF fail = "DelAlias" THEN [db |-> db, err |-> ErrDB]
    ELSE [db |-> [db EXCEPT !.aliases = Remove(@, {aliasID})], err |-> nil]

ListVirtualDomains(db, fail) ==
    IF fail = "ListVirtualDomains" THEN [res |-> EmptyTable, err |-> ErrDB]
    ELSE [res |-> db.domains, err |-> nil]

ListVirtualUsers(db, domainID, fail) ==
    IF fail = "ListVirtualUsers" THEN [res |-> EmptyTable, err |-> ErrDB]
    ELSE [res |-> Remove(db.users,
                    {k \in DOMAIN db.users :
                        domainID >= 0 /\ db.users[k].domain_id # domainID}),
          err |-> nil]

ListVirtualAliases(db, domainID, fail) ==
    IF fail = "ListVirtualAliases" THEN [res |-> EmptyTable, err |-> ErrDB]
    ELSE [res |-> Remove(db.aliases,
                    {k \in DOMAIN db.aliases :
                        domainID >= 0 /\ db.aliases[k].domain_id # domainID}),
          err |-> nil]

\* what ListAllUsers returns: isNil tells the nil map from an empty one
NoMap(err) == [res |-> EmptyTable, isNil |-> TRUE, err |-> err]

NewListResultForVirtualUser(user, virtualUserID) ==
    [VirtualUser |-> user, VirtualUserID |-> virtualUserID, AliasFor |-> {}]

NewListResultForVirtualAlias == NewListResultForVirtualUser(<<>>, -1)

ListAllUsersMergeKeepsUsers(usersErr, aliasErr, res, al) ==
    IF usersErr # nil THEN NoMap(usersErr)
    ELSE [res |-> res, isNil |-> FALSE, err |-> aliasErr]

\* ListAllUsers after wg.Wait(): the errors of the two goroutines, then the
\* aliases merged into res, the map the first goroutine has filled.  An
\* entry is [VirtualUser, VirtualUserID, AliasFor], VirtualUser being <<>>
\* for nil and AliasFor the identifiers of its aliases.
ListAllUsersMerge(usersErr, aliasErr, res, al) ==
    LET bad == {k \in DOMAIN al : ParseMailParts(al[k].source).err # nil}
        named == {k \in DOMAIN al : ParseMailParts(al[k].source).err = nil
                                    /\ ParseMailParts(al[k].source).name # <<>>}
        keys == (DOMAIN res) \cup {al[k].source : k \in named}
    IN
    IF usersErr # nil THEN NoMap(usersErr)
    ELSE IF aliasErr # nil THEN NoMap(aliasErr)
    ELSE IF bad # {} THEN NoMap("Invalid Email address")
    ELSE [res |-> [m \in keys |->
                    [(IF m \in DOMAIN res THEN res[m] ELSE NewListResultForVirtualAlias)
                        EXCEPT !.AliasFor = {k \in named : al[k].source = m}]],
          isNil |-> FALSE, err |-> nil]

\* ListAllUsers with its two goroutines run to their end one after the other
ListAllUsers(db, domainID, fail) ==
    LET virtualUsers == ListVirtualUsers(db, domainID, fail)
        virtualAliases == ListVirtualAliases(db, domainID, fail)
        us == virtualUsers.res
        res == [m \in {us[k].email : k \in DOMAIN us} |->
                    NewListResultForVirtualUser(<<m>>,
                        CHOOSE k \in DOMAIN us : us[k].email = m)]
    IN
    ListAllUsersMerge(virtualUsers.err, virtualAliases.err, res, virtualAliases.res)

-----------------------------------------------------------------------------
(* goauth: the user handler and the session controller, as api.go and       *)
(* admin.go use them.  au is the record of the admin table, the session     *)
(* table and their counters.                                                *)

ErrUserNotFound == "goauth: user not found"
ErrNotAuthSession == "goauth: not an auth session"
ErrKeyNotFound == "goauth: key not found"
ErrInvalidKey == "goauth: invalid key"
NoUserID == -1

GetUserID(au, userName, fail) ==
    IF fail = "GetUserID" THEN [id |-> NoUserID, err |-> ErrDB]
    ELSE IF userName \notin DOMAIN au.admins THEN [id |-> NoUserID, err |-> ErrUserNotFound]
    ELSE [id |-> au.admins[userName].id, err |-> nil]

DeleteUser(au, userName, fail) ==
    IF fail = "DeleteUser" THEN [au |-> au, err |-> ErrDB]
    ELSE [au |-> [au EXCEPT !.admins = Remove(@, {userName})], err |-> nil]

\* the user name is unique in the table
Insert(au, userName, password, fail) ==
    IF fail = "Insert" \/ userName \in DOMAIN au.admins
    THEN [au |-> au, id |-> NoUserID, err |-> ErrDB]
    ELSE [au |-> [au EXCEPT
                    !.admins = InsertRow(@, userName,
                                  [id |-> au.nextAdminId, password |-> password]),
                    !.nextAdminId = @ + 1],
          id |-> au.nextAdminId, err |-> nil]

UpdatePassword(au, userName, password, fail) ==
    IF fail = "UpdatePassword" THEN [au |-> au, err |-> ErrDB]
    ELSE IF userName \notin DOMAIN au.admins THEN [au |-> au, err |-> nil]
    ELSE [au |-> [au EXCEPT !.admins[userName].password = password], err |-> nil]

ListUsers(au, fail) ==
    IF fail = "ListUsers" THEN [res |-> {}, err |-> ErrDB]
    ELSE [res |-> DOMAIN au.admins, err |-> nil]

Validate(au, userName, password, fail) ==
    IF fail = "Validate" THEN [id |-> NoUserID, err |-> ErrDB]
    ELSE IF userName \notin DOMAIN au.admins THEN [id |-> NoUserID, err |-> ErrUserNotFound]
    ELSE IF au.admins[userName].password # password THEN [id |-> NoUserID, err |-> nil]
    ELSE [id |-> au.admins[userName].id, err |-> nil]

DeleteEntriesForUser(au, adminID, fail) ==
    IF fail = "DeleteEntriesForUser" THEN [au |-> au, err |-> ErrDB]
    ELSE [au |-> [au EXCEPT
                    !.sessions = Remove(@, {k \in DOMAIN @ : @[k].user = adminID})],
          err |-> nil]

-----------------------------------------------------------------------------
(* backup.go: the mail directories zipped and removed.  A path is a string; *)
(* the pattern of the mail directories is kept as its literal pieces and    *)
(* its placeholders.  fs is the disk, [dirs, zips]; fail names the one call *)
(* of the run that the file system refuses, "Stat" a stat that fails for    *)
(* another reason than the path not being there.                            *)

ErrFS == "file system error"

\* the default of the config file's maildir
MailDir == <<"/var/vmail/", "%d", "/", "%n">>

\* strings.Replace(pattern, token, value, -1)
RECURSIVE Replace(_, _, _)
Replace(pattern, token, value) ==
    IF pattern = <<>> THEN <<>>
    ELSE (IF Head(pattern) = token THEN value ELSE <<Head(pattern)>>)
         \o Replace(Tail(pattern), token, value)

getSourcePath(pattern, domain, user) ==
    Replace(Replace(pattern, "%d", domain), "%n", user)

\* filepath.Join(backupDir, zipName); the names that get here hold no
\* separator and no "..", so that Join cleans nothing away
getDestPath(backupDir, domain, user) ==
    backupDir \o <<"/">> \o domain
    \o (IF user = <<>> THEN <<>> ELSE <<"-">> \o user) \o <<".zip">>

\* d is path or lies under it
Under(path, d) ==
    LET dir == IF path[Len(path)] = "/" THEN path ELSE path \o <<"/">> IN
    d = path \/ (Len(dir) <= Len(d) /\ SubSeq(d, 1, Len(dir)) = dir)

\* os.Stat(path) finds something
Exists(disk, path) == \E d \in disk.dirs : Under(path, d)

FsCall(op, path, ok) == [op |-> op, path |-> path, ok |-> ok]

\* os.RemoveAll(path)
RemoveAll(disk, path, fail) ==
    IF fail = "RemoveAll"
    THEN [fs |-> disk, err |-> ErrFS, did |-> <<FsCall("RemoveAll", path, FALSE)>>]
    ELSE [fs |-> [disk EXCEPT !.dirs = {d \in @ : ~Under(path, d)}], err |-> nil,
          did |-> <<FsCall("RemoveAll", path, TRUE)>>]

deleteDomainDir(disk, pattern, domain, fail) ==
    IF containsInvalidParts(domain) # nil
    THEN [fs |-> disk, err |-> containsInvalidParts(domain), did |-> <<>>]
    ELSE RemoveAll(disk, getSourcePath(pattern, domain, <<>>), fail)

deleteUserDirUnchecked(disk, pattern, domain, user, fail) ==
    RemoveAll(disk, getSourcePath(pattern, domain, user), fail)

deleteUserDir(disk, pattern, domain, user, fail) ==
    IF containsInvalidParts(domain) # nil
    THEN [fs |-> disk, err |-> containsInvalidParts(domain), did |-> <<>>]
    ELSE IF containsInvalidParts(user) # nil
    THEN [fs |-> disk, err |-> containsInvalidParts(user), did |-> <<>>]
    ELSE RemoveAll(disk, getSourcePath(pattern, domain, user), fail)

zipToFileAlwaysCreates(disk, source, destination, fail) ==
    LET stat == FsCall("Stat", source, Exists(disk, source))
        made == [disk EXCEPT !.zips = @ \cup {destination}]
    IN
    IF fail = "Create"
    THEN [fs |-> disk, err |-> ErrFS,
          did |-> <<stat, FsCall("Create", destination, FALSE)>>]
    ELSE [fs |-> made,
          err |-> IF fail \in {"writeZip", "Flush"} /\ Exists(disk, source)
                  THEN ErrFS ELSE nil,
          did |-> <<stat, FsCall("Create", destination, TRUE)>>]

\* writeZip gives nil when its own stat of the source fails, and the
\* archive it leaves is then an empty file
zipToFile(disk, source, destination, fail) ==
    LET stat == FsCall("Stat", source, Exists(disk, source))
        made == [disk EXCEPT !.zips = @ \cup {destination}]
    IN
    IF ~Exists(disk, source)
    THEN [fs |-> disk, err |-> nil, did |-> <<stat>>]
    ELSE IF fail = "Create"
    THEN [fs |-> disk, err |-> ErrFS,
          did |-> <<stat, FsCall("Create", destination, FALSE)>>]
    ELSE [fs |-> made,
          err |-> IF fail \in {"writeZip", "Flush"} THEN ErrFS ELSE nil,
          did |-> <<stat, FsCall("Create", destination, TRUE)>>]

zipDomainDir(disk, backupDir, pattern, domain, fail) ==
    IF containsInvalidParts(domain) # nil
    THEN [fs |-> disk, err |-> containsInvalidParts(domain), did |-> <<>>]
    ELSE zipToFile(disk, getSourcePath(pattern, domain, <<>>),
                   getDestPath(backupDir, domain, <<>>), fail)

zipUserDir(disk, backupDir, pattern, domain, user, fail) ==
    IF containsInvalidParts(domain) # nil
    THEN [fs |-> disk, err |-> containsInvalidParts(domain), did |-> <<>>]
    ELSE IF containsInvalidParts(user) # nil
    THEN [fs |-> disk, err |-> containsInvalidParts(user), did |-> <<>>]
    ELSE zipToFile(disk, getSourcePath(pattern, domain, user),
                   getDestPath(backupDir, domain, user), fail)

-----------------------------------------------------------------------------
(* api.go: the handlers.  w is the world a request runs in: [db, au, cfg].  *)
(* A handler yields what it wrote (status 0: nothing yet), the error it     *)
(* returned, the data-layer and collaborator calls it made, the goroutine   *)
(* it started and the world it leaves.                                      *)

getMethod == "GET"
postMethod == "POST"
deleteMethod == "DELETE"
updateMethod == "UPDATE"

Quiet(w) ==
    [status |-> 0, body |-> "", err |-> nil, panic |-> FALSE, csrf |-> FALSE,
     calls |-> <<>>, newId |-> -1, spawn |-> <<>>, db |-> w.db, au |-> w.au]

\* http.Error(w, text, code)
httpError(w, text, code) == [Quiet(w) EXCEPT !.status = code, !.body = text]

\* http.NotFound(w, r)
NotFound(w) == httpError(w, "404 page not found", 404)

\* w.Write(json): the status defaults to 200
WriteJSON(res, text) == [res EXCEPT !.status = 200, !.body = text]

InvalidSyntax == "Invalid request syntax"

addDomain(w, r, fail) ==
    LET add == AddVirtualDomain(w.db, r.body.DomainName, fail) IN
    IF r.body.kind # "json" THEN httpError(w, InvalidSyntax, 400)
    ELSE IF domainNameValid(r.body.DomainName) # nil
    THEN httpError(w, domainNameValid(r.body.DomainName), 400)
    ELSE IF add.err # nil
    THEN [Quiet(w) EXCEPT !.err = add.err, !.calls = <<"AddVirtualDomain">>]
    ELSE WriteJSON([Quiet(w) EXCEPT !.calls = <<"AddVirtualDomain">>,
                                    !.db = add.db, !.newId = add.id],
                   "{domain-id}")

\* the goroutine of deleteDomain and deleteMail, as it is started: the
\* result of the lookup it captured
Goroutine(kind, id, domain, user, lookupErr) ==
    [kind |-> kind, id |-> id, domain |-> domain, user |-> user,
     lookupErr |-> lookupErr, pc |-> "start",
     did |-> <<>>, backupErr |-> nil, delErr |-> nil]

GoroutineStepRemovesAnyway(g, cfg, disk, fail) ==
    LET zip == IF g.kind = "domain"
               THEN zipDomainDir(disk, cfg.Backup, MailDir, g.domain, fail)
               ELSE zipUserDir(disk, cfg.Backup, MailDir, g.domain, g.user, fail)
        del == IF g.kind = "domain"
               THEN deleteDomainDir(disk, MailDir, g.domain, fail)
               ELSE deleteUserDir(disk, MailDir, g.domain, g.user, fail)
    IN
    IF g.pc = "start"
    THEN [g |-> [g EXCEPT !.pc = IF g.lookupErr # nil THEN "done"
                                 ELSE IF cfg.Backup # <<>> THEN "zip"
                                 ELSE "delete"],
          fs |-> disk]
    ELSE IF g.pc = "zip"
    THEN [g |-> [g EXCEPT !.pc = "delete",
                          !.did = @ \o zip.did, !.backupErr = zip.err],
          fs |-> zip.fs]
    ELSE [g |-> [g EXCEPT !.pc = "done", !.did = @ \o del.did, !.delErr = del.err],
          fs |-> del.fs]

\* one step of the goroutine: it returns at once on a failed lookup, zips
\* when a backup directory is configured and returns when that fails, and
\* removes the directory last.  did collects its calls of the file system.
GoroutineStep(g, cfg, disk, fail) ==
    LET zip == IF g.kind = "domain"
               THEN zipDomainDir(disk, cfg.Backup, MailDir, g.domain, fail)
               ELSE zipUserDir(disk, cfg.Backup, MailDir, g.domain, g.user, fail)
        del == IF g.kind = "domain"
               THEN deleteDomainDir(disk, MailDir, g.domain, fail)
               ELSE deleteUserDir(disk, MailDir, g.domain, g.user, fail)
    IN
    IF g.pc = "start"
    THEN [g |-> [g EXCEPT !.pc = IF g.lookupErr # nil THEN "done"
                                 ELSE IF cfg.Backup # <<>> THEN "zip"
                                 ELSE "delete"],
          fs |-> disk]
    ELSE IF g.pc = "zip"
    THEN [g |-> [g EXCEPT !.pc = IF zip.err # nil THEN "done" ELSE "delete",
                          !.did = @ \o zip.did, !.backupErr = zip.err],
          fs |-> zip.fs]
    ELSE [g |-> [g EXCEPT !.pc = "done", !.did = @ \o del.did, !.delErr = del.err],
          fs |-> del.fs]

deleteDomainLooksUpLate(domainID, w, r, fail) ==
    LET del == DeleteVirtualDomain(w.db, domainID, fail)
        look == getDomainName(del.db, domainID, fail)
        started == IF w.cfg.Delete
                   THEN [Quiet(w) EXCEPT
                            !.calls = <<"getDomainName">>,
                            !.spawn = <<Goroutine("domain", domainID, look.name,
                                                  <<>>, look.err)>>]
                   ELSE Quiet(w)
    IN
    [started EXCEPT !.calls = @ \o <<"DeleteVirtualDomain">>,
                    !.db = del.db, !.err = del.err, !.panic = del.panic]

deleteDomainWhateverTheFlag(domainID, w, r, fail) ==
    LET look == getDomainName(w.db, domainID, fail)
        del == DeleteVirtualDomain(w.db, domainID, fail)
        started == IF TRUE
                   THEN [Quiet(w) EXCEPT
                            !.calls = <<"getDomainName">>,
                            !.spawn = <<Goroutine("domain", domainID, look.name,
                                                  <<>>, look.err)>>]
                   ELSE Quiet(w)
    IN
    [started EXCEPT !.calls = @ \o <<"DeleteVirtualDomain">>,
                    !.db = del.db, !.err = del.err, !.panic = del.panic]

deleteDomain(domainID, w, r, fail) ==
    LET look == getDomainName(w.db, domainID, fail)
        del == DeleteVirtualDomain(w.db, domainID, fail)
        started == IF w.cfg.Delete
                   THEN [Quiet(w) EXCEPT
                            !.calls = <<"getDomainName">>,
                            !.spawn = <<Goroutine("domain", domainID, look.name,
                                                  <<>>, look.err)>>]
                   ELSE Quiet(w)
    IN
    [started EXCEPT !.calls = @ \o <<"DeleteVirtualDomain">>,
                    !.db = del.db, !.err = del.err, !.panic = del.panic]

deleteAlias(aliasID, w, r, fail) ==
    LET del == DelAlias(w.db, aliasID, fail) IN
    [Quiet(w) EXCEPT !.calls = <<"DelAlias">>, !.db = del.db, !.err = del.err]

ListDomainsJSONPostAnywhere(w, r, fail) ==
    LET p == parseListDomainURL(URLString(r))
        list == ListVirtualDomains(w.db, fail)
    IN
    IF p.err # nil /\ p.err # errNoID THEN NotFound(w)
    ELSE IF r.method = getMethod
    THEN IF p.id >= 0
         THEN httpError(w, "Invalid GET request. Must be GET /api/domains/", 400)
         ELSE IF list.err # nil
         THEN [Quiet(w) EXCEPT !.err = list.err, !.calls = <<"ListVirtualDomains">>]
         ELSE WriteJSON([Quiet(w) EXCEPT !.calls = <<"ListVirtualDomains">>,
                                         !.csrf = TRUE], "{domains}")
    ELSE IF r.method = postMethod THEN addDomain(w, r, fail)
    ELSE IF r.method = deleteMethod
    THEN IF p.id < 0
         THEN httpError(w, "Invalid DELETE request to /api/domains/: No id given.", 400)
         ELSE deleteDomain(p.id, w, r, fail)
    ELSE httpError(w, "Invalid method for /api/domains/", 400)

ListDomainsJSON(w, r, fail) ==
    LET p == parseListDomainURL(URLString(r))
        list == ListVirtualDomains(w.db, fail)
    IN
    IF p.err # nil /\ p.err # errNoID THEN NotFound(w)
    ELSE IF r.method = getMethod
    THEN IF p.id >= 0
         THEN httpError(w, "Invalid GET request. Must be GET /api/domains/", 400)
         ELSE IF list.err # nil
         THEN [Quiet(w) EXCEPT !.err = list.err, !.calls = <<"ListVirtualDomains">>]
         ELSE WriteJSON([Quiet(w) EXCEPT !.calls = <<"ListVirtualDomains">>,
                                         !.csrf = TRUE], "{domains}")
    ELSE IF r.method = postMethod
    THEN IF p.id >= 0
         THEN httpError(w, "Invalid POST request to /api/domains/.", 400)
         ELSE addDomain(w, r, fail)
    ELSE IF r.method = deleteMethod
    THEN IF p.id < 0
         THEN httpError(w, "Invalid DELETE request to /api/domains/: No id given.", 400)
         ELSE deleteDomain(p.id, w, r, fail)
    ELSE httpError(w, "Invalid method for /api/domains/", 400)

addMail(w, r, fail) ==
    LET add == AddMailUser(w.db, r.body.Mail, r.body.Password, fail) IN
    IF r.body.kind # "json" THEN httpError(w, InvalidSyntax, 400)
    ELSE IF emailValid(r.body.Mail) # nil THEN httpError(w, emailValid(r.body.Mail), 400)
    ELSE IF passwordValid(r.body.Password) # nil
    THEN httpError(w, passwordValid(r.body.Password), 400)
    ELSE IF add.err # nil
    THEN [Quiet(w) EXCEPT !.err = add.err, !.calls = <<"AddMailUser">>]
    ELSE WriteJSON([Quiet(w) EXCEPT !.calls = <<"AddMailUser">>,
                                    !.db = add.db, !.newId = add.id],
                   "{user-id}")

changePassword(userID, w, r, fail) ==
    LET chg == ChangeUserPassword(w.db, userID, r.body.Password, fail) IN
    IF r.body.kind # "json" THEN httpError(w, InvalidSyntax, 400)
    ELSE IF passwordValid(r.body.Password) # nil
    THEN httpError(w, passwordValid(r.body.Password), 400)
    ELSE [Quiet(w) EXCEPT !.calls = <<"ChangeUserPassword">>,
                          !.db = chg.db, !.err = chg.err]

deleteMailReportsLookup(userID, w, r, fail) ==
    LET look == getUserName(w.db, userID, fail)
        del == DelMailUser(w.db, userID, fail)
        started == IF w.cfg.Delete
                   THEN [Quiet(w) EXCEPT
                            !.calls = <<"getUserName">>,
                            !.spawn = <<Goroutine("user", userID, look.domain,
                                                  look.name, look.err)>>]
                   ELSE Quiet(w)
    IN
    IF w.cfg.Delete /\ look.err # nil THEN [started EXCEPT !.err = look.err]
    ELSE [started EXCEPT !.calls = @ \o <<"DelMailUser">>,
                         !.db = del.db, !.err = del.err]

deleteMail(userID, w, r, fail) ==
    LET look == getUserName(w.db, userID, fail)
        del == DelMailUser(w.db, userID, fail)
        started == IF w.cfg.Delete
                   THEN [Quiet(w) EXCEPT
                            !.calls = <<"getUserName">>,
                            !.spawn = <<Goroutine("user", userID, look.domain,
                                                  look.name, look.err)>>]
                   ELSE Quiet(w)
    IN
    [started EXCEPT !.calls = @ \o <<"DelMailUser">>,
                    !.db = del.db, !.err = del.err]

ListUsersJSON(w, r, fail) ==
    LET p == parseListUsersURL(URLPath(r))
        domainValues == QueryValues(r.query, "domain")
        domainID == IF domainValues = <<>> THEN -1 ELSE ParseInt(domainValues[1]).val
        list == ListAllUsers(w.db, domainID, fail)
    IN
    IF p.err # nil /\ p.err # errNoID THEN NotFound(w)
    ELSE IF r.method = getMethod
    THEN IF p.id >= 0
         THEN httpError(w, "Invalid GET request. Must be GET /api/users/", 400)
         ELSE IF domainValues # <<>> /\ Len(domainValues) # 1
         THEN httpError(w, "Invalid GET request. query params must contain at most one domain=DOMAIN-ID", 400)
         ELSE IF domainValues # <<>> /\ ParseInt(domainValues[1]).err # nil
         THEN httpError(w, "Invalid GET request. DOMAIN-ID must be an int.", 400)
         ELSE IF list.err # nil
         THEN [Quiet(w) EXCEPT !.err = list.err, !.calls = <<"ListAllUsers">>]
         ELSE WriteJSON([Quiet(w) EXCEPT !.calls = <<"ListAllUsers">>,
                                         !.csrf = TRUE], "{users}")
    ELSE IF r.method = updateMethod
    THEN IF p.id < 0
         THEN httpError(w, "Invalid UPDATE request to /api/users/: No id given.", 400)
         ELSE changePassword(p.id, w, r, fail)
    ELSE IF r.method = postMethod
    THEN IF p.id >= 0
         THEN httpError(w, "Invalid POST request to /api/users/.", 400)
         ELSE addMail(w, r, fail)
    ELSE IF r.method = deleteMethod
    THEN IF p.id < 0
         THEN httpError(w, "Invalid DELETE request to /api/users/: No id given.", 400)
         ELSE deleteMail(p.id, w, r, fail)
    ELSE httpError(w, "Invalid method for /api/users/", 400)

addAlias(w, r, fail) ==
    LET add == AddAlias(w.db, r.body.Source, r.body.Dest, fail) IN
    IF r.body.kind # "json" THEN httpError(w, InvalidSyntax, 400)
    ELSE IF emailValid(r.body.Source) # nil
    THEN httpError(w, emailValid(r.body.Source), 400)
    ELSE IF emailValid(r.body.Dest) # nil THEN httpError(w, emailValid(r.body.Dest), 400)
    ELSE IF add.err # nil
    THEN [Quiet(w) EXCEPT !.err = add.err, !.calls = <<"AddAlias">>]
    ELSE WriteJSON([Quiet(w) EXCEPT !.calls = <<"AddAlias">>,
                                    !.db = add.db, !.newId = add.id],
                   "{alias-id}")

ListAliasesJSON(w, r, fail) ==
    LET p == parseListAliasesURL(URLString(r))
        list == ListVirtualAliases(w.db, -1, fail)
    IN
    IF p.err # nil /\ p.err # errNoID THEN NotFound(w)
    ELSE IF r.method = getMethod
    THEN IF p.id >= 0
         THEN httpError(w, "Invalid GET request. Must be GET /api/aliases/", 400)
         ELSE IF list.err # nil
         THEN [Quiet(w) EXCEPT !.err = list.err, !.calls = <<"ListVirtualAliases">>]
         ELSE WriteJSON([Quiet(w) EXCEPT !.calls = <<"ListVirtualAliases">>,
                                         !.csrf = TRUE], "{aliases}")
    ELSE IF r.method = deleteMethod
    THEN IF p.id < 0
         THEN httpError(w, "Invalid DELETE request to /api/aliases/: No id given.", 400)
         ELSE deleteAlias(p.id, w, r, fail)
    ELSE IF r.method = postMethod
    THEN IF p.id >= 0
         THEN httpError(w, "Invalid POST request to /api/aliases/.", 400)
         ELSE addAlias(w, r, fail)
    ELSE httpError(w, "Invalid method for /api/aliases/", 400)

addAdmin(w, r, fail) ==
    LET ins == Insert(w.au, r.body.Username, r.body.Password, fail) IN
    IF r.body.kind # "json" THEN httpError(w, InvalidSyntax, 400)
    ELSE IF adminNameValid(r.body.Username) # nil
    THEN httpError(w, adminNameValid(r.body.Username), 400)
    ELSE IF passwordValid(r.body.Password) # nil
    THEN httpError(w, passwordValid(r.body.Password), 400)
    ELSE IF ins.err # nil THEN [Quiet(w) EXCEPT !.err = ins.err, !.calls = <<"Insert">>]
    ELSE WriteJSON([Quiet(w) EXCEPT !.calls = <<"Insert">>,
                                    !.au = ins.au, !.newId = ins.id],
                   "{admin-id}")

(* changeAdminPassword and the DELETE branch of ListAdminsJSON call the     *)
(* auth collaborator several times; other requests run between two calls.   *)
(* q is such a request on its way: pc names the call it makes next, res is  *)
(* the handler's result so far.                                             *)

AdminCall(op, userName, password, pc, res) ==
    [op |-> op, userName |-> userName, password |-> password, pc |-> pc,
     adminID |-> NoUserID, lookedUp |-> FALSE, invalidated |-> FALSE, res |-> res]

\* changeAdminPassword up to its first call of the user handler
changeAdminPassword(userName, w, r) ==
    IF r.body.kind # "json"
    THEN AdminCall("changeAdminPassword", userName, <<>>, "done",
                   httpError(w, InvalidSyntax, 400))
    ELSE IF passwordValid(r.body.Password) # nil
    THEN AdminCall("changeAdminPassword", userName, <<>>, "done",
                   httpError(w, passwordValid(r.body.Password), 400))
    ELSE AdminCall("changeAdminPassword", userName, r.body.Password,
                   "UpdatePassword", Quiet(w))

\* the DELETE branch of ListAdminsJSON up to its first call
deleteAdmin(userName, w, r) ==
    AdminCall("deleteAdmin", userName, <<>>, "GetUserID", Quiet(w))

Called(q, name, pc) == [q EXCEPT !.pc = pc, !.res.calls = @ \o <<name>>]

\* the next call of changeAdminPassword; a failed lookup or invalidation is
\* logged and the handler returns nil
changeAdminPasswordWrongId(au, q, fail) ==
    LET upd == UpdatePassword(au, q.userName, q.password, fail)
        get == GetUserID(au, q.userName, fail)
        del == DeleteEntriesForUser(au, NoUserID, fail)
    IN
    IF q.pc = "UpdatePassword"
    THEN IF upd.err # nil
         THEN [au |-> au,
               q |-> [Called(q, "UpdatePassword", "done") EXCEPT !.res.err = upd.err]]
         ELSE [au |-> upd.au, q |-> Called(q, "UpdatePassword", "GetUserID")]
    ELSE IF q.pc = "GetUserID"
    THEN IF get.err # nil
         THEN [au |-> au, q |-> Called(q, "GetUserID", "done")]
         ELSE [au |-> au,
               q |-> [Called(q, "GetUserID", "DeleteEntriesForUser") EXCEPT
                        !.adminID = get.id, !.lookedUp = TRUE]]
    ELSE [au |-> del.au,
          q |-> [Called(q, "DeleteEntriesForUser", "done") EXCEPT
                    !.invalidated = (del.err = nil)]]

changeAdminPasswordStep(au, q, fail) ==
    LET upd == UpdatePassword(au, q.userName, q.password, fail)
        get == GetUserID(au, q.userName, fail)
        del == DeleteEntriesForUser(au, q.adminID, fail)
    IN
    IF q.pc = "UpdatePassword"
    THEN IF upd.err # nil
         THEN [au |-> au,
               q |-> [Called(q, "UpdatePassword", "done") EXCEPT !.res.err = upd.err]]
         ELSE [au |-> upd.au, q |-> Called(q, "UpdatePassword", "GetUserID")]
    ELSE IF q.pc = "GetUserID"
    THEN IF get.err # nil
         THEN [au |-> au, q |-> Called(q, "GetUserID", "done")]
         ELSE [au |-> au,
               q |-> [Called(q, "GetUserID", "DeleteEntriesForUser") EXCEPT
                        !.adminID = get.id, !.lookedUp = TRUE]]
    ELSE [au |-> del.au,
          q |-> [Called(q, "DeleteEntriesForUser", "done") EXCEPT
                    !.invalidated = (del.err = nil)]]

\* the next call of the DELETE branch of ListAdminsJSON; only a failed
\* invalidation is logged, the other failures are returned
deleteAdminStep(au, q, fail) ==
    LET get == GetUserID(au, q.userName, fail)
        rm == DeleteUser(au, q.userName, fail)
        del == DeleteEntriesForUser(au, q.adminID, fail)
    IN
    IF q.pc = "GetUserID"
    THEN IF get.err # nil
         THEN [au |-> au,
               q |-> [Called(q, "GetUserID", "done") EXCEPT !.res.err = get.err]]
         ELSE [au |-> au,
               q |-> [Called(q, "GetUserID", "DeleteUser") EXCEPT
                        !.adminID = get.id, !.lookedUp = TRUE]]
    ELSE IF q.pc = "DeleteUser"
    THEN IF rm.err # nil
         THEN [au |-> au,
               q |-> [Called(q, "DeleteUser", "done") EXCEPT !.res.err = rm.err]]
         ELSE [au |-> rm.au, q |-> Called(q, "DeleteUser", "DeleteEntriesForUser")]
    ELSE [au |-> del.au,
          q |-> [Called(q, "DeleteEntriesForUser", "done") EXCEPT
                    !.invalidated = (del.err = nil)]]

AdminStep(au, q, fail) ==
    IF q.op = "changeAdminPassword" THEN changeAdminPasswordStep(au, q, fail)
    ELSE deleteAdminStep(au, q, fail)

\* a request that runs alone: all its calls, one after the other
RECURSIVE RunAdmin(_, _, _)
RunAdmin(au, q, fail) ==
    IF q.pc = "done" THEN [q.res EXCEPT !.au = au]
    ELSE LET st == AdminStep(au, q, fail) IN RunAdmin(st.au, st.q, fail)

ListAdminsJSON(w, r, fail) ==
    LET p == parseAdminListURL(URLString(r))
        list == ListUsers(w.au, fail)
    IN
    IF p.err # nil THEN NotFound(w)
    ELSE IF r.method = getMethod
    THEN IF p.name # <<>>
         THEN httpError(w, "Invalid GET request. Must be GET /api/admins/", 400)
         ELSE IF list.err # nil
         THEN [Quiet(w) EXCEPT !.err = list.err, !.calls = <<"ListUsers">>]
         ELSE WriteJSON([Quiet(w) EXCEPT !.calls = <<"ListUsers">>, !.csrf = TRUE],
                        "{admins}")
    ELSE IF r.method = deleteMethod
    THEN IF p.name = <<>>
         THEN httpError(w, "Invalid DELETE request to /api/admins/: No id given.", 400)
         ELSE RunAdmin(w.au, deleteAdmin(p.name, w, r), fail)
    ELSE IF r.method = postMethod
    THEN IF p.name # <<>>
         THEN httpError(w, "Invalid POST request to /api/admins/.", 400)
         ELSE addAdmin(w, r, fail)
    ELSE IF r.method = updateMethod
    THEN IF p.name = <<>>
         THEN httpError(w, "Invalid UPDATE request to /api/admins/.", 400)
         ELSE RunAdmin(w.au, changeAdminPassword(p.name, w, r), fail)
    ELSE httpError(w, "Invalid method for /api/admins/", 400)

\* MailAppHandler.ServeHTTP: what the client gets.  A panic of the handler
\* is recovered by net/http, which closes the connection without a response.
ServeHTTP(res) ==
    IF res.panic THEN [res EXCEPT !.status = -1, !.body = ""]
    ELSE IF res.err # nil
    THEN [res EXCEPT !.status = 500, !.body = "Internal Server Error"]
    ELSE IF res.status = 0 THEN [res EXCEPT !.status = 200]
    ELSE res

-----------------------------------------------------------------------------
(* admin.go: login and the login-required wrapper.  The session store of    *)
(* goauth and the cookie store of gorilla are collaborators: a cookie is    *)
(* what the browser sends, [kind, key, remember, maxAge].                   *)

NoCookie == [kind |-> "none", key |-> 0, remember |-> "absent", maxAge |-> "default"]

AuthCookie(key, remember, maxAge) ==
    [kind |-> "auth", key |-> key, remember |-> remember, maxAge |-> maxAge]

\* SessionController.ValidateSession(r, store)
ValidateSession(au, cookie, fail) ==
    IF fail = "ValidateSession" THEN [user |-> NoUserID, err |-> ErrDB]
    ELSE IF cookie.kind # "auth" THEN [user |-> NoUserID, err |-> ErrNotAuthSession]
    ELSE IF cookie.key \notin DOMAIN au.sessions
    THEN [user |-> NoUserID, err |-> ErrKeyNotFound]
    ELSE IF au.sessions[cookie.key].expired THEN [user |-> NoUserID, err |-> ErrInvalidKey]
    ELSE [user |-> au.sessions[cookie.key].user, err |-> nil]

\* SessionController.CreateAuthSession(r, store, userId, lifespan)
CreateAuthSession(au, userId, fail) ==
    IF fail = "CreateAuthSession" THEN [au |-> au, key |-> 0, err |-> ErrDB]
    ELSE [au |-> [au EXCEPT
                    !.sessions = InsertRow(@, au.nextKey,
                                           [user |-> userId, expired |-> FALSE]),
                    !.nextKey = @ + 1],
          key |-> au.nextKey, err |-> nil]

\* what the handlers of admin.go add to a handler's result
AuthFields ==
    [location |-> "", invoked |-> FALSE, validateErr |-> nil, setCookie |-> NoCookie,
     created |-> 0, checkErr |-> nil, userId |-> NoUserID, sessionErr |-> nil]

AuthQuiet(w) == Quiet(w) @@ AuthFields

\* http.Redirect(w, r, url, 302)
Redirect(w, url) == [AuthQuiet(w) EXCEPT !.status = 302, !.location = url]

SaveWithMaxAgeOfStore(key, remember, fail) ==
    IF fail = "Save" THEN NoCookie
    ELSE AuthCookie(key, remember, "default")

\* session.Save(r, w) with the max-age the remember-me value asks for
Save(key, remember, fail) ==
    IF fail = "Save" THEN NoCookie
    ELSE AuthCookie(key, remember, IF remember = "false" THEN "0" ELSE "default")

\* LoginRequired(f)(appcontext, w, r); inner is what f answers in w
LoginRequiredKeyNotFoundIsError(w, cookie, fail, inner) ==
    LET v == ValidateSession(w.au, cookie, fail) IN
    IF v.err \in {ErrNotAuthSession, ErrInvalidKey}
    THEN [Redirect(w, "/login") EXCEPT !.validateErr = v.err]
    ELSE IF v.err # nil
    THEN [AuthQuiet(w) EXCEPT !.err = v.err, !.validateErr = v.err]
    ELSE [(inner @@ AuthFields) EXCEPT
            !.invoked = TRUE,
            !.setCookie = Save(cookie.key, cookie.remember, fail)]

LoginRequiredLenient(w, cookie, fail, inner) ==
    LET v == ValidateSession(w.au, cookie, fail) IN
    IF v.err \in {ErrNotAuthSession, ErrKeyNotFound}
    THEN [Redirect(w, "/login") EXCEPT !.validateErr = v.err]
    ELSE IF v.err # nil /\ v.err # ErrInvalidKey
    THEN [AuthQuiet(w) EXCEPT !.err = v.err, !.validateErr = v.err]
    ELSE [(inner @@ AuthFields) EXCEPT
            !.invoked = TRUE, !.validateErr = v.err,
            !.setCookie = Save(cookie.key, cookie.remember, fail)]

LoginRequiredSaveSurfaces(w, cookie, fail, inner) ==
    LET v == ValidateSession(w.au, cookie, fail) IN
    IF v.err \in {ErrNotAuthSession, ErrKeyNotFound, ErrInvalidKey}
    THEN [Redirect(w, "/login") EXCEPT !.validateErr = v.err]
    ELSE IF v.err # nil
    THEN [AuthQuiet(w) EXCEPT !.err = v.err, !.validateErr = v.err]
    ELSE IF fail = "Save"
    THEN [AuthQuiet(w) EXCEPT !.err = "securecookie: the value could not be encoded"]
    ELSE [(inner @@ AuthFields) EXCEPT
            !.invoked = TRUE,
            !.setCookie = Save(cookie.key, cookie.remember, fail)]

LoginRequired(w, cookie, fail, inner) ==
    LET v == ValidateSession(w.au, cookie, fail) IN
    IF v.err \in {ErrNotAuthSession, ErrKeyNotFound, ErrInvalidKey}
    THEN [Redirect(w, "/login") EXCEPT !.validateErr = v.err]
    ELSE IF v.err # nil
    THEN [AuthQuiet(w) EXCEPT !.err = v.err, !.validateErr = v.err]
    ELSE [(inner @@ AuthFields) EXCEPT
            !.invoked = TRUE,
            !.setCookie = Save(cookie.key, cookie.remember, fail)]

\* RenderDomainsTemplate and the other pages: the template is executed
RenderTemplate(w, fail) ==
    IF fail = "ExecuteTemplate" THEN [Quiet(w) EXCEPT !.err = "template: failed"]
    ELSE [Quiet(w) EXCEPT !.status = 200, !.body = "{page}"]

\* Logout: the session is made to expire at once (a negative max-age) and
\* saved, its key is looked up and deleted from the store; a session that
\* is not found and a delete that fails are logged only, and the client is
\* sent to the login page
Logout(w, cookie, fail) ==
    [Redirect(w, "/login") EXCEPT
        !.au.sessions = IF fail \in {"GetKey", "DeleteKey"} THEN @
                        ELSE Remove(@, {cookie.key})]

\* the cookie Logout saves after the one of LoginRequired
LogoutCookie(cookie) == AuthCookie(cookie.key, cookie.remember, "-1")

LoginFailed == "Login failed"

(* CheckLogin calls the user handler and then the session controller; a     *)
(* request of another client may run between the two calls.  The first      *)
(* part ends the request (done) or leaves the user id to go on with.        *)
CheckLoginTelling(w, body, fail) ==
    LET v == Validate(w.au, body.Username, body.Password, fail) IN
    IF body.kind # "json"
    THEN [done |-> TRUE, res |-> httpError(w, InvalidSyntax, 400) @@ AuthFields]
    ELSE IF v.err = ErrUserNotFound
    THEN [done |-> TRUE,
          res |-> [(httpError(w, "Unknown user", 404) @@ AuthFields) EXCEPT
                     !.checkErr = v.err, !.calls = <<"Validate">>]]
    ELSE IF v.err # nil
    THEN [done |-> TRUE,
          res |-> [AuthQuiet(w) EXCEPT !.err = v.err, !.checkErr = v.err,
                                       !.calls = <<"Validate">>]]
    ELSE IF v.id = NoUserID
    THEN [done |-> TRUE,
          res |-> [(httpError(w, LoginFailed, 400) @@ AuthFields) EXCEPT
                     !.calls = <<"Validate">>]]
    ELSE [done |-> FALSE,
          res |-> [AuthQuiet(w) EXCEPT !.userId = v.id, !.calls = <<"Validate">>]]

CheckLoginValidate(w, body, fail) ==
    LET v == Validate(w.au, body.Username, body.Password, fail) IN
    IF body.kind # "json"
    THEN [done |-> TRUE, res |-> httpError(w, InvalidSyntax, 400) @@ AuthFields]
    ELSE IF v.err = ErrUserNotFound
    THEN [done |-> TRUE,
          res |-> [(httpError(w, LoginFailed, 400) @@ AuthFields) EXCEPT
                     !.checkErr = v.err, !.calls = <<"Validate">>]]
    ELSE IF v.err # nil
    THEN [done |-> TRUE,
          res |-> [AuthQuiet(w) EXCEPT !.err = v.err, !.checkErr = v.err,
                                       !.calls = <<"Validate">>]]
    ELSE IF v.id = NoUserID
    THEN [done |-> TRUE,
          res |-> [(httpError(w, LoginFailed, 400) @@ AuthFields) EXCEPT
                     !.calls = <<"Validate">>]]
    ELSE [done |-> FALSE,
          res |-> [AuthQuiet(w) EXCEPT !.userId = v.id, !.calls = <<"Validate">>]]

\* the second part, from CreateAuthSession on; res is the first part's
CheckLoginRedirectsAnyway(w, res, remember, fail) ==
    LET c == CreateAuthSession(w.au, res.userId, fail) IN
    [Redirect(w, "/") EXCEPT
        !.userId = res.userId, !.calls = res.calls \o <<"CreateAuthSession">>,
        !.sessionErr = c.err, !.au = c.au, !.created = c.key,
        !.setCookie = IF c.err # nil THEN NoCookie ELSE Save(c.key, remember, fail)]

CheckLoginSession(w, res, remember, fail) ==
    LET c == CreateAuthSession(w.au, res.userId, fail) IN
    IF c.err # nil
    THEN [AuthQuiet(w) EXCEPT
            !.err = c.err, !.sessionErr = c.err, !.userId = res.userId,
            !.calls = res.calls \o <<"CreateAuthSession">>]
    ELSE [Redirect(w, "/") EXCEPT
            !.userId = res.userId, !.calls = res.calls \o <<"CreateAuthSession">>,
            !.au = c.au, !.created = c.key,
            !.setCookie = Save(c.key, remember, fail)]

\* LoginPageHandler
LoginPageHandler(w, method, fail) ==
    IF method = getMethod THEN RenderTemplate(w, fail) @@ AuthFields
    ELSE httpError(w, "Invalid method for /login", 400) @@ AuthFields

-----------------------------------------------------------------------------
(* The resource handlers at work: requests routed by the ServeMux patterns  *)
(* of cmd/mailwebadmin/mailwebadmin.go                                      *)

MaxTail == 2
MaxRows == 1
MaxTasks == 1

DB == [domains |-> domains, users |-> users, aliases |-> aliases, nextId |-> nextId]
AU == [admins |-> admins, nextAdminId |-> nextAdminId, sessions |-> sessions,
       nextKey |-> nextKey]
World == [db |-> DB, au |-> AU, cfg |-> config]

\* the handler the ServeMux pattern of the path selects
Route(handler, w, r, fail) ==
    IF handler = "ListDomainsJSON" THEN ListDomainsJSON(w, r, fail)
    ELSE IF handler = "ListUsersJSON" THEN ListUsersJSON(w, r, fail)
    ELSE IF handler = "ListAliasesJSON" THEN ListAliasesJSON(w, r, fail)
    ELSE ListAdminsJSON(w, r, fail)

Resource == [ListDomainsJSON |-> "/api/domains", ListUsersJSON |-> "/api/users",
             ListAliasesJSON |-> "/api/aliases", ListAdminsJSON |-> "/api/admins"]

Int64Over == [MaxInt64Digits EXCEPT ![19] = "8"]

TailAlphabet == {"1", "/", "a"}
Tails ==
    StringsUpTo(TailAlphabet, MaxTail)
    \cup {MaxInt64Digits, Int64Over, <<"0">> \o Int64Over,
          <<"0">> \o MaxInt64Digits, <<"-">>, <<"_">>}

\* the paths the mux hands to a handler: the subtree "<resource>/", and for
\* the users also the path "/api/users" itself
Paths(handler) ==
    {<<Resource[handler], "/">> \o t : t \in Tails}
    \cup (IF handler = "ListUsersJSON" THEN {<<"/api/users">>} ELSE {})

Param(k, v) == [key |-> k, value |-> v]
Queries ==
    {<<>>, <<Param("domain", <<"1">>)>>, <<Param("domain", <<"a">>)>>,
     <<Param("domain", <<"1">>), Param("domain", <<"1">>)>>,
     <<Param("page", <<"1">>)>>}

Body(kind, fields) ==
    [kind |-> kind] @@ fields @@
    [DomainName |-> <<>>, Mail |-> <<>>, Password |-> <<>>, Source |-> <<>>,
     Dest |-> <<>>, Username |-> <<>>, RememberMe |-> FALSE]

\* a body that cannot be read, one that is no JSON (the empty body is one),
\* and a JSON object without any of the fields
PlainBodies ==
    {Body("read error", <<>>), Body("bad json", <<>>), Body("json", <<>>)}

Idle == [kind |-> "none"]

\* the rows inserted since the initial state, all tables together
Inserted(db, au) ==
    (db.nextId.domains - 2) + (db.nextId.users - 1) + (db.nextId.aliases - 1)
    + (au.nextAdminId - 2)

\* one request served from beginning to end
Serve(handler, r, fail) ==
    /\ up
    /\ \E res \in {ServeHTTP(Route(handler, World, r, fail))} :
        /\ Inserted(res.db, res.au) <= MaxRows
        /\ Len(tasks) + Len(res.spawn) <= MaxTasks
        /\ domains' = res.db.domains
        /\ users' = res.db.users
        /\ aliases' = res.db.aliases
        /\ nextId' = res.db.nextId
        /\ admins' = res.au.admins
        /\ nextAdminId' = res.au.nextAdminId
        /\ sessions' = res.au.sessions
        /\ nextKey' = res.au.nextKey
        /\ tasks' = tasks \o res.spawn
        /\ last' = [kind |-> "api", handler |-> handler, r |-> r, fail |-> fail,
                    status |-> res.status, body |-> res.body, csrf |-> res.csrf,
                    calls |-> res.calls, newId |-> res.newId]
        /\ UNCHANGED <<config, fs, up, inflight, ended, valVars>>

Str1(c) == <<c>>

\* ofNamed: the keys of the sessions that were valid when a password change
\* or delete of an admin began and belonged to the admin it named, the
\* request having answered 200 and its DeleteEntriesForUser not having
\* failed.  ofLookedUp: those that belonged to the id its GetUserID
\* returned, the request having answered 200 and both calls having succeeded.
\* loggedOut: the keys a logout has deleted from the store.
NoneEnded == [ofNamed |-> {}, ofLookedUp |-> {}, loggedOut |-> {}]
DomainAB == <<"a", ".", "b">>
MailU == <<"u", "@">> \o DomainAB
Secret == Rep("s", 6)

\* the state the server starts in: the database holds the domain a.b, the
\* admin table the admin "a" (made with cmd/mailwebadmin_user)
StartTables ==
    /\ domains = [k \in {1} |-> DomainAB]
    /\ users = EmptyTable
    /\ aliases = EmptyTable
    /\ nextId = [domains |-> 2, users |-> 1, aliases |-> 1]
    /\ admins = [n \in {Str1("a")} |-> [id |-> 1, password |-> Secret]]
    /\ nextAdminId = 2
    /\ sessions = EmptyTable
    /\ nextKey = 1
    /\ tasks = <<>>
    /\ fs = [dirs |-> {}, zips |-> {}]
    /\ up = TRUE
    /\ last = Idle
    /\ inflight = {}
    /\ ended = NoneEnded
    /\ valIn = <<>>
    /\ valOut = Pending

ApiBodies(handler) ==
    {Body("bad json", <<>>),
     IF handler = "ListDomainsJSON" THEN Body("json", [DomainName |-> <<"c", ".", "d">>])
     ELSE IF handler = "ListUsersJSON"
     THEN Body("json", [Mail |-> MailU, Password |-> Secret])
     ELSE IF handler = "ListAliasesJSON"
     THEN Body("json", [Source |-> MailU, Dest |-> MailU])
     ELSE Body("json", [Username |-> Str1("1"), Password |-> Secret])}

\* GET and DELETE requests carry no body, and a body sent with a method the
\* handlers do not know is never read
Requests(paths, queries, bodies) ==
    {[method |-> m, path |-> p, query |-> q, body |-> Body("bad json", <<>>)] :
        m \in {getMethod, deleteMethod, "PUT"}, p \in paths, q \in queries}
    \cup {[method |-> m, path |-> p, query |-> q, body |-> b] :
            m \in {postMethod, updateMethod}, p \in paths, q \in queries,
            b \in bodies}

\* only the users' list reads the query
ApiQueries(handler) ==
    IF handler = "ListUsersJSON" THEN Queries
    ELSE {<<>>, <<Param("page", <<"1">>)>>}

\* the calls that may fail while a handler runs
Fails ==
    [ListDomainsJSON |-> {"none", "DeleteVirtualDomain", "ListVirtualDomains"},
     ListUsersJSON |-> {"none", "DelMailUser", "ListVirtualUsers"},
     ListAliasesJSON |-> {"none", "DelAlias", "ListVirtualAliases"},
     ListAdminsJSON |-> {"none", "GetUserID", "ListUsers"}]

ApiInit ==
    /\ StartTables
    /\ config \in {[Delete |-> d, Backup |-> <<"/backup">>] : d \in BOOLEAN}

ApiRequests(handler) ==
    Requests(Paths(handler), ApiQueries(handler), ApiBodies(handler))

DomainsRequest ==
    /\ last.kind = "none"
    /\ \E r \in ApiRequests("ListDomainsJSON"), fail \in Fails.ListDomainsJSON :
        Serve("ListDomainsJSON", r, fail)

UsersRequest ==
    /\ last.kind = "none"
    /\ \E r \in ApiRequests("ListUsersJSON"), fail \in Fails.ListUsersJSON :
        Serve("ListUsersJSON", r, fail)

AliasesRequest ==
    /\ last.kind = "none"
    /\ \E r \in ApiRequests("ListAliasesJSON"), fail \in Fails.ListAliasesJSON :
        Serve("ListAliasesJSON", r, fail)

AdminsRequest ==
    /\ last.kind = "none"
    /\ \E r \in ApiRequests("ListAdminsJSON"), fail \in Fails.ListAdminsJSON :
        Serve("ListAdminsJSON", r, fail)

\* net/http finishes the request: the response has left
Respond ==
    /\ last.kind # "none"
    /\ last' = Idle
    /\ UNCHANGED <<apiVars, authVars, valVars>>

ApiNext ==
    DomainsRequest \/ UsersRequest \/ AliasesRequest \/ AdminsRequest \/ Respond

SpecApi == ApiInit /\ [][ApiNext]_vars

-----------------------------------------------------------------------------
(* The writing requests, with the payloads the validators tell apart        *)

WritePath == [addDomain |-> <<"/api/domains", "/">>,
              addMail |-> <<"/api/users">>,
              changePassword |-> <<"/api/users", "/", "1">>,
              addAlias |-> <<"/api/aliases", "/">>,
              addAdmin |-> <<"/api/admins", "/">>,
              changeAdminPassword |-> <<"/api/admins", "/", "b">>]

WriteRequest(method, path, body) ==
    [method |-> method, path |-> path, query |-> <<>>, body |-> body]

\* a mailbox of the domain a.b, a string without "@", a mailbox of a domain
\* the table does not hold
WriteMails == {MailU, Str1("u"), <<"u", "@", "c", ".", "d">>}

\* a free name, the name of the admin there is, a name with a character
\* outside \w
WriteAdminNames == {Str1("b"), Str1("a"), <<"b", "-">>}

AddDomainRequest ==
    /\ last.kind = "none"
    /\ \E b \in PlainBodies \cup {Body("json", [DomainName |-> n]) : n \in NameInputs},
          fail \in {"none", "AddVirtualDomain"} :
        Serve("ListDomainsJSON", WriteRequest(postMethod, WritePath.addDomain, b), fail)

AddMailRequest ==
    /\ last.kind = "none"
    /\ \E b \in PlainBodies \cup {Body("json", [Mail |-> m, Password |-> pw]) :
                                    m \in WriteMails, pw \in PasswordInputs},
          fail \in {"none", "crypt", "AddMailUser"} :
        Serve("ListUsersJSON", WriteRequest(postMethod, WritePath.addMail, b), fail)

ChangePasswordRequest ==
    /\ last.kind = "none"
    /\ \E b \in PlainBodies \cup {Body("json", [Password |-> pw]) : pw \in PasswordInputs},
          fail \in {"none", "crypt", "ChangeUserPassword"} :
        Serve("ListUsersJSON",
              WriteRequest(updateMethod, WritePath.changePassword, b), fail)

AddAdminRequest ==
    /\ last.kind = "none"
    /\ \E b \in PlainBodies \cup {Body("json", [Username |-> n, Password |-> pw]) :
                                    n \in WriteAdminNames, pw \in PasswordInputs},
          fail \in {"none", "Insert"} :
        Serve("ListAdminsJSON", WriteRequest(postMethod, WritePath.addAdmin, b), fail)

ChangeAdminPasswordRequest ==
    /\ last.kind = "none"
    /\ \E b \in PlainBodies \cup {Body("json", [Password |-> pw]) : pw \in PasswordInputs},
          fail \in {"none", "UpdatePassword", "GetUserID", "DeleteEntriesForUser"} :
        Serve("ListAdminsJSON",
              WriteRequest(updateMethod, WritePath.changeAdminPassword, b), fail)

\* a catch-all source of the domain a.b, a mailbox, a catch-all source of a
\* domain the table does not hold, a string without "@"
AliasSources == {<<"@">> \o DomainAB, MailU, <<"@", "c", ".", "d">>, Str1("u")}

\* a mailbox, a string without "@", an address without local part
AliasDests == {MailU, Str1("u"), <<"@">> \o DomainAB}

AddAliasRequest ==
    /\ last.kind = "none"
    /\ \E b \in PlainBodies \cup {Body("json", [Source |-> s, Dest |-> d]) :
                                    s \in AliasSources, d \in AliasDests},
          fail \in {"none", "getDomainID", "AddAlias"} :
        Serve("ListAliasesJSON", WriteRequest(postMethod, WritePath.addAlias, b), fail)

WriteNext ==
    \/ AddDomainRequest
    \/ AddAliasRequest
    \/ AddMailRequest
    \/ ChangePasswordRequest
    \/ AddAdminRequest
    \/ ChangeAdminPasswordRequest
    \/ Respond

SpecWrite == ApiInit /\ [][WriteNext]_vars

-----------------------------------------------------------------------------
(* Logins, pages behind LoginRequired and the admin requests that end       *)
(* sessions, their collaborator calls interleaved                           *)

MaxKeys == 2
MaxAdminRequests == 2

AdminA == Str1("a")
NewSecret == Rep("n", 6)

RememberValues == {"true", "false", "absent", "notbool"}

\* no cookie, a session cookie without a key, and cookies with a key: the
\* keys the store has given out and one it has not
Cookies ==
    {NoCookie, [NoCookie EXCEPT !.kind = "plain"]}
    \cup {AuthCookie(k, m, "default") : k \in 1..(MaxKeys + 1), m \in RememberValues}

LoginBodies ==
    {Body("read error", <<>>), Body("bad json", <<>>)}
    \cup {Body("json", [Username |-> n, Password |-> pw, RememberMe |-> m]) :
            n \in {AdminA, Str1("x")}, pw \in {Secret, NewSecret}, m \in BOOLEAN}

\* UPDATE /api/admins/a with a new password and with one too short, and
\* DELETE /api/admins/a
AdminRequests ==
    {WriteRequest(updateMethod, <<"/api/admins", "/">> \o AdminA, b) :
        b \in {Body("json", [Password |-> NewSecret]),
               Body("json", [Password |-> Rep("n", 5)])}}
    \cup {WriteRequest(deleteMethod, <<"/api/admins", "/">> \o AdminA,
                       Body("bad json", <<>>))}

\* the cookies the admin requests come with: none, or the one of the oldest
\* valid session
AdminCookies(valid) ==
    {NoCookie} \cup {AuthCookie(k, "true", "default") : k \in {Min(valid \cup {MaxKeys})}}

\* what the client gets and what the handler did for it
Answer(kind, cookie, fail, res) ==
    [kind |-> kind, cookie |-> cookie, fail |-> fail, status |-> res.status,
     body |-> res.body, err |-> res.err, location |-> res.location,
     invoked |-> res.invoked, validateErr |-> res.validateErr,
     setCookie |-> res.setCookie, created |-> res.created,
     checkErr |-> res.checkErr, userId |-> res.userId,
     sessionErr |-> res.sessionErr, calls |-> res.calls]

\* a request on its way keeps the result so far, not the world it saw
Forget(res) == [res EXCEPT !.db = <<>>, !.au = <<>>]

ValidSessions == {k \in DOMAIN sessions : ~sessions[k].expired}

\* a request on its way: n tells it from the others, cookie is the one it
\* came with, before is the valid sessions with their admin ids and startID
\* the id of the admin named, both as the request found them
OnItsWay(n, q, cookie) ==
    [n |-> n, q |-> [q EXCEPT !.res = Forget(@)], cookie |-> cookie,
     before |-> IF q.op = "login" THEN <<>>
                ELSE [k \in ValidSessions |-> sessions[k].user],
     startID |-> GetUserID(AU, q.userName, "none").id]

Logins == {x \in inflight : x.q.op = "login"}
AdminsOnTheirWay == inflight \ Logins

\* /login/ up to the answer of the user handler
LoginStart(methods, bodies, fails) ==
    /\ last.kind = "none"
    /\ \E method \in methods, b \in bodies, fail \in fails :
        LET c == IF method = postMethod THEN CheckLoginValidate(World, b, fail)
                 ELSE [done |-> TRUE, res |-> LoginPageHandler(World, method, fail)]
        IN
        IF c.done
        THEN /\ last' = Answer("login", NoCookie, fail, ServeHTTP(c.res))
             /\ UNCHANGED inflight
        ELSE /\ Logins = {}
             /\ inflight' = inflight \cup
                    {OnItsWay(0, AdminCall("login", <<>>, <<>>, "CreateAuthSession",
                                           c.res),
                              [NoCookie EXCEPT !.remember =
                                    IF b.RememberMe THEN "true" ELSE "false"])}
             /\ UNCHANGED last
    /\ UNCHANGED <<apiVars, valVars, admins, nextAdminId, sessions, nextKey, ended>>

\* any request to /login/
LoginRequest ==
    LoginStart({getMethod, postMethod, "PUT"}, LoginBodies,
               {"none", "Validate", "ExecuteTemplate"})

\* the admin a logs in, with the password of the beginning or the new one
AdminLoginRequest ==
    LoginStart({postMethod},
               {Body("json", [Username |-> AdminA, Password |-> pw,
                              RememberMe |-> TRUE]) : pw \in {Secret, NewSecret}},
               {"none"})

\* CheckLogin from CreateAuthSession on
LoginSession ==
    /\ last.kind = "none"
    /\ \E x \in Logins, fail \in {"none", "CreateAuthSession", "Save"} :
        \E res \in {ServeHTTP(CheckLoginSession(World, x.q.res, x.cookie.remember,
                                                fail))} :
            /\ res.au.nextKey <= MaxKeys + 1
            /\ sessions' = res.au.sessions
            /\ nextKey' = res.au.nextKey
            /\ inflight' = inflight \ {x}
            /\ last' = Answer("login", NoCookie, fail, res)
    /\ UNCHANGED <<apiVars, valVars, admins, nextAdminId, ended>>

\* a page behind LoginRequired
Page(cookies, fails) ==
    /\ last.kind = "none"
    /\ \E cookie \in cookies, fail \in fails :
        last' = Answer("gated", cookie, fail,
                       ServeHTTP(LoginRequired(World, cookie, fail,
                                               RenderTemplate(World, fail))))
    /\ UNCHANGED <<apiVars, valVars, authVars>>

PageRequest == Page(Cookies, {"none", "ValidateSession", "Save", "ExecuteTemplate"})

\* /logout/: LoginRequired(Logout)
LogoutRequest ==
    /\ last.kind = "none"
    /\ \E cookie \in Cookies,
          fail \in {"none", "ValidateSession", "Save", "GetKey", "DeleteKey"} :
        \E res \in {ServeHTTP(LoginRequired(World, cookie, fail,
                                            Logout(World, cookie, fail)))} :
            /\ sessions' = res.au.sessions
            /\ ended' = [ended EXCEPT
                            !.loggedOut = @ \cup (DOMAIN sessions \ DOMAIN sessions')]
            /\ last' = Answer("logout", cookie, fail,
                              IF res.invoked
                              THEN [res EXCEPT !.setCookie = LogoutCookie(cookie)]
                              ELSE res)
    /\ UNCHANGED <<apiVars, valVars, admins, nextAdminId, nextKey, inflight>>

\* a page asked for with the cookie of a session the store has given out
SessionCheck ==
    Page({AuthCookie(k, "true", "default") : k \in 1..MaxKeys},
         {"none", "ValidateSession", "Save"})

\* what a request that has answered adds to the history
Ended(x, q, res) ==
    LET tried == Has(res.calls, "DeleteEntriesForUser") IN
    [ofNamed |->
        ended.ofNamed \cup
        (IF res.status = 200 /\ (tried => q.invalidated)
         THEN {k \in DOMAIN x.before : x.before[k] = x.startID} ELSE {}),
     ofLookedUp |->
        ended.ofLookedUp \cup
        (IF res.status = 200 /\ q.lookedUp /\ q.invalidated
         THEN {k \in DOMAIN x.before : x.before[k] = q.adminID} ELSE {}),
     loggedOut |-> ended.loggedOut]

\* LoginRequired(ListAdminsJSON) for a password change or a delete of an
\* admin, up to the handler's first call of the user handler
AdminRequest ==
    /\ last.kind = "none"
    /\ Cardinality(AdminsOnTheirWay) < MaxAdminRequests
    /\ \E cookie \in AdminCookies(ValidSessions), r \in AdminRequests,
          fail \in {"none", "ValidateSession"} :
        LET name == parseAdminListURL(URLString(r)).name
            q == IF r.method = updateMethod THEN changeAdminPassword(name, World, r)
                 ELSE deleteAdmin(name, World, r)
            res == LoginRequired(World, cookie, fail, q.res)
        IN
        IF res.invoked /\ q.pc # "done"
        THEN /\ inflight' = inflight \cup
                    {OnItsWay(CHOOSE n \in 1..MaxAdminRequests :
                                \A x \in AdminsOnTheirWay : x.n # n,
                              [q EXCEPT !.res = res], cookie)}
             /\ UNCHANGED last
        ELSE /\ last' = Answer("gated", cookie, fail, ServeHTTP(res))
             /\ UNCHANGED inflight
    /\ UNCHANGED <<apiVars, valVars, admins, nextAdminId, sessions, nextKey, ended>>

\* the next call an admin request makes; with its last call it answers
AdminRequestCall ==
    /\ last.kind = "none"
    /\ \E x \in AdminsOnTheirWay, call \in {"works", "fails"} :
        LET fail == IF call = "fails" THEN x.q.pc ELSE "none" IN
        \E st \in {AdminStep(AU, x.q, fail)} :
            /\ admins' = st.au.admins
            /\ sessions' = st.au.sessions
            /\ IF st.q.pc = "done"
               THEN /\ inflight' = inflight \ {x}
                    /\ last' = Answer("admin", x.cookie, fail, ServeHTTP(st.q.res))
                    /\ ended' = Ended(x, st.q, ServeHTTP(st.q.res))
               ELSE /\ inflight' = (inflight \ {x}) \cup {[x EXCEPT !.q = st.q]}
                    /\ UNCHANGED <<last, ended>>
    /\ UNCHANGED <<apiVars, valVars, nextAdminId, nextKey>>

\* cmd/mailwebadmin_user add
AddAdminByCommand ==
    /\ last.kind = "none"
    /\ AdminA \notin DOMAIN admins
    /\ nextAdminId <= MaxRows + 1
    /\ admins' = Insert(AU, AdminA, Secret, "none").au.admins
    /\ nextAdminId' = Insert(AU, AdminA, Secret, "none").au.nextAdminId
    /\ UNCHANGED <<apiVars, valVars, sessions, nextKey, inflight, ended, last>>

\* the lifespan of a session ends
SessionExpires ==
    /\ last.kind = "none"
    /\ \E k \in ValidSessions : sessions' = [sessions EXCEPT ![k].expired = TRUE]
    /\ UNCHANGED <<apiVars, valVars, admins, nextAdminId, nextKey, inflight, ended,
                   last>>

\* SessionController.DeleteEntriesDaemon: the invalid keys are deleted
DeleteEntriesDaemon ==
    /\ last.kind = "none"
    /\ DOMAIN sessions # ValidSessions
    /\ sessions' = Remove(sessions, DOMAIN sessions \ ValidSessions)
    /\ UNCHANGED <<apiVars, valVars, admins, nextAdminId, nextKey, inflight, ended,
                   last>>

AuthInit ==
    /\ StartTables
    /\ config = [Delete |-> FALSE, Backup |-> <<>>]

LoginNext ==
    \/ LoginRequest
    \/ LoginSession
    \/ PageRequest
    \/ LogoutRequest
    \/ SessionExpires
    \/ DeleteEntriesDaemon
    \/ Respond

SpecLogin == AuthInit /\ [][LoginNext]_vars

AdminsNext ==
    \/ AdminLoginRequest
    \/ LoginSession
    \/ SessionCheck
    \/ AdminRequest
    \/ AdminRequestCall
    \/ AddAdminByCommand
    \/ Respond

\* the sessions' lifespan is longer than the runs looked at here
SpecAdmins == AuthInit /\ [][AdminsNext]_vars

ValNext == ApplyPasswordValid \/ ApplyEmailValid \/ ApplyDomainNameValid

ValInitAll ==
    /\ ValInit
    /\ domains = EmptyTable
    /\ users = EmptyTable
    /\ aliases = EmptyTable
    /\ nextId = [domains |-> 1, users |-> 1, aliases |-> 1]
    /\ admins = EmptyTable
    /\ nextAdminId = 1
    /\ sessions = EmptyTable
    /\ nextKey = 1
    /\ config = [Delete |-> FALSE, Backup |-> <<>>]
    /\ tasks = <<>>
    /\ fs = [dirs |-> {}, zips |-> {}]
    /\ up = TRUE
    /\ last = Idle
    /\ inflight = {}
    /\ ended = NoneEnded

SpecValidate == ValInitAll /\ [][ValNext]_vars

-----------------------------------------------------------------------------
(* Properties of the resource handlers                                      *)

\* what the handler's pattern captures in the text the handler matches
Captured(handler, r) ==
    IF handler = "ListDomainsJSON" THEN listDomainsRegex(URLString(r))
    ELSE IF handler = "ListUsersJSON" THEN listUsersRegex(URLPath(r))
    ELSE IF handler = "ListAliasesJSON" THEN listAliasRegx(URLString(r))
    ELSE adminsAliasRegx(URLString(r))

Numeric(handler) == handler # "ListAdminsJSON"

Parsed(handler, r) ==
    /\ Captured(handler, r) # NoMatch
    /\ Numeric(handler) /\ Captured(handler, r) # <<>>
        => ParseInt(Captured(handler, r)).err = nil

IdPresent(handler, r) == Captured(handler, r) \notin {NoMatch, <<>>}

ListCall == [ListDomainsJSON |-> "ListVirtualDomains", ListUsersJSON |-> "ListAllUsers",
             ListAliasesJSON |-> "ListVirtualAliases", ListAdminsJSON |-> "ListUsers"]
CreateCall == [ListDomainsJSON |-> "AddVirtualDomain", ListUsersJSON |-> "AddMailUser",
               ListAliasesJSON |-> "AddAlias", ListAdminsJSON |-> "Insert"]
DeleteCall == [ListDomainsJSON |-> "DeleteVirtualDomain", ListUsersJSON |-> "DelMailUser",
               ListAliasesJSON |-> "DelAlias", ListAdminsJSON |-> "DeleteUser"]
UpdateCall == [ListUsersJSON |-> "ChangeUserPassword", ListAdminsJSON |-> "UpdatePassword"]

\* the row of the dispatch table a request falls in
TableRow(handler, r) ==
    IF r.method = getMethod /\ ~IdPresent(handler, r) THEN "list"
    ELSE IF r.method = postMethod /\ ~IdPresent(handler, r) THEN "create"
    ELSE IF r.method = deleteMethod /\ IdPresent(handler, r) THEN "delete"
    ELSE IF r.method = updateMethod /\ IdPresent(handler, r)
            /\ handler \in DOMAIN UpdateCall THEN "update"
    ELSE "invalid"

PayloadValid(handler, b) ==
    /\ b.kind = "json"
    /\ IF handler = "ListDomainsJSON" THEN domainNameValid(b.DomainName) = nil
       ELSE IF handler = "ListUsersJSON"
       THEN emailValid(b.Mail) = nil /\ passwordValid(b.Password) = nil
       ELSE IF handler = "ListAliasesJSON"
       THEN emailValid(b.Source) = nil /\ emailValid(b.Dest) = nil
       ELSE adminNameValid(b.Username) = nil /\ passwordValid(b.Password) = nil

FilterValid(r) ==
    LET v == QueryValues(r.query, "domain") IN
    v = <<>> \/ (Len(v) = 1 /\ ParseInt(v[1]).err = nil)

Refused400 == last.status = 400 /\ last.calls = <<>>

\* C5: once the URL has parsed, a request outside the dispatch table (GET or
\* POST with an identifier, DELETE or UPDATE without, UPDATE on domains or
\* aliases, an unknown method) is answered 400 without any data-access call;
\* a GET without identifier calls the list function (for the users, when
\* the domain filter is absent or one integer), a POST without identifier
\* the create function and an UPDATE with identifier the password change
\* (both when the payload validates, 400 without a call otherwise), and a
\* DELETE with identifier the delete function (for the admins after the
\* lookup of the admin's id, and only when that lookup succeeds)
DispatchTable ==
    last.kind = "api" /\ Parsed(last.handler, last.r) =>
        LET h == last.handler
            row == TableRow(h, last.r)
        IN
        /\ last.status # 404
        /\ row = "invalid" => Refused400
        /\ row = "list" =>
            IF h = "ListUsersJSON" /\ ~FilterValid(last.r) THEN Refused400
            ELSE last.calls = <<ListCall[h]>>
        /\ row = "create" =>
            IF PayloadValid(h, last.r.body) THEN last.calls = <<CreateCall[h]>>
            ELSE Refused400
        /\ row = "update" =>
            IF last.r.body.kind = "json" /\ passwordValid(last.r.body.Password) = nil
            THEN last.calls[1] = UpdateCall[h]
            ELSE Refused400
        /\ row = "delete" =>
            IF h = "ListAdminsJSON"
            THEN /\ last.calls[1] = "GetUserID"
                 /\ Len(last.calls) >= 2 => last.calls[2] = "DeleteUser"
                 /\ last.status = 200 => Has(last.calls, "DeleteUser")
            ELSE last.calls[Len(last.calls)] = DeleteCall[h]

\* a password change dispatched to the users' handler and carried out
DispatchTableWitness ==
    /\ last.kind = "api"
    /\ last.handler = "ListUsersJSON"
    /\ TableRow(last.handler, last.r) = "update"
    /\ last.calls = <<"ChangeUserPassword">>
    /\ last.status = 200

\* C6: for every handler and method, a request whose URL the handler's
\* pattern does not match, or whose captured digits do not fit a 64-bit
\* integer, is answered 404 without any data-access call; a URL that matches
\* without an identifier is never answered 404
NotFoundOnlyForBadURL ==
    last.kind = "api" =>
        LET c == Captured(last.handler, last.r) IN
        /\ (c = NoMatch \/ (Numeric(last.handler) /\ c # <<>> /\ ParseInt(c).err # nil))
            => last.status = 404 /\ last.calls = <<>>
        /\ c = <<>> => last.status # 404

\* a DELETE whose identifier is one above math.MaxInt64
NotFoundOnlyForBadURLWitness ==
    /\ last.kind = "api"
    /\ last.r.method = deleteMethod
    /\ Captured(last.handler, last.r) = Int64Over
    /\ last.status = 404

PathUnsafe(name) ==
    \/ Contains(name, <<".", ".">>)
    \/ Contains(name, <<"/">>)
    \/ Contains(name, <<"\\">>)

\* a POST to the domains resource without identifier, its body decoded
AddDomainPosted ==
    /\ last.kind = "api"
    /\ last.handler = "ListDomainsJSON"
    /\ TableRow(last.handler, last.r) = "create"
    /\ last.r.body.kind = "json"

\* C7: an add-domain request whose domain name has more than 50 code points
\* or contains "..", "/" or "\" is answered 400 without a call of the data
\* layer, and no domain name in the table has such a name
UnsafeDomainNamesRefused ==
    /\ (/\ AddDomainPosted
        /\ \/ Len(last.r.body.DomainName) > 50
           \/ PathUnsafe(last.r.body.DomainName))
        => Refused400
    /\ \A k \in DOMAIN domains : Len(domains[k]) <= 50 /\ ~PathUnsafe(domains[k])

\* a name of 51 two-byte code points and no unsafe part, refused
UnsafeDomainNamesRefusedWitness ==
    /\ AddDomainPosted
    /\ last.r.body.DomainName = Rep("U+00E9", 51)
    /\ Refused400

\* C8: an add-domain request whose domain-name is empty or missing is
\* answered 400 without a call of the data layer (the database at work)
EmptyDomainNameRefused ==
    (AddDomainPosted /\ last.r.body.DomainName = <<>> /\ last.fail = "none")
        => Refused400

SetsPassword(handler, r) ==
    /\ handler \in DOMAIN UpdateCall
    /\ TableRow(handler, r) \in {"create", "update"}
    /\ r.body.kind = "json"

OtherFieldsValid(handler, r) ==
    IF TableRow(handler, r) = "update" THEN TRUE
    ELSE IF handler = "ListUsersJSON" THEN emailValid(r.body.Mail) = nil
    ELSE adminNameValid(r.body.Username) = nil

WriteCall(handler, r) ==
    IF TableRow(handler, r) = "update" THEN UpdateCall[handler] ELSE CreateCall[handler]

\* C9: add-user, change-user-password, add-admin and change-admin-password
\* refuse a password of fewer than 6 or more than 30 code points with 400
\* and without a call of the data layer or the user store, and make the
\* call for every password of 6 to 30 code points (the other fields of
\* the payload being valid)
PasswordLengthRule ==
    (last.kind = "api" /\ SetsPassword(last.handler, last.r)) =>
        LET n == Len(last.r.body.Password) IN
        /\ (n < 6 \/ n > 30) => Refused400
        /\ (n \in 6..30 /\ OtherFieldsValid(last.handler, last.r))
            => Has(last.calls, WriteCall(last.handler, last.r))

\* a password of 31 code points for a user there is, refused
PasswordLengthRuleWitness ==
    /\ last.kind = "api"
    /\ last.handler = "ListUsersJSON"
    /\ SetsPassword(last.handler, last.r)
    /\ TableRow(last.handler, last.r) = "update"
    /\ Len(last.r.body.Password) = 31
    /\ 1 \in DOMAIN users
    /\ Refused400

-----------------------------------------------------------------------------
(* Properties of the validators                                             *)

\* the part of mail after its last "@"; the mail has one
DomainPart(mail) ==
    LET at == CHOOSE i \in 1..Len(mail) :
                /\ mail[i] = "@"
                /\ \A k \in (i + 1)..Len(mail) : mail[k] # "@"
    IN SubSeq(mail, at + 1, Len(mail))

NoAtOrNoDomainDot(mail) ==
    \/ ~Contains(mail, <<"@">>)
    \/ ~Contains(DomainPart(mail), <<".">>)

\* C10 as stated: emailValid succeeds for every string of fewer than 100
\* code points that matches the mailbox pattern, and fails for every string
\* without "@" or without a dot in its domain part
EmailValidFollowsPattern ==
    valOut.fn = "emailValid" =>
        /\ (Len(valIn) < 100 /\ mailRegexp(valIn)) => valOut.err = nil
        /\ NoAtOrNoDomainDot(valIn) => valOut.err # nil

\* C10, amended: emailValid succeeds for every string of fewer than 100 code
\* points that matches the mailbox pattern and does not contain "..", and
\* fails for every string without "@" or without a dot in its domain part
EmailValidFollowsPatternWithoutDots ==
    valOut.fn = "emailValid" =>
        /\ (Len(valIn) < 100 /\ mailRegexp(valIn) /\ ~Contains(valIn, <<".", ".">>))
            => valOut.err = nil
        /\ NoAtOrNoDomainDot(valIn) => valOut.err # nil

\* a mailbox of 99 code points, accepted
EmailValidWitness ==
    /\ valOut.fn = "emailValid"
    /\ Len(valIn) = 99
    /\ mailRegexp(valIn)
    /\ valOut.err = nil

-----------------------------------------------------------------------------
(* Properties of login and of the login-required wrapper                    *)

\* C1: the handler wrapped by LoginRequired is invoked exactly when the
\* session validation returned no error; after ErrNotAuthSession,
\* ErrKeyNotFound or ErrInvalidKey the answer is a 302 to /login, after any
\* other validation error a 500, and the handler is not invoked
LoginRequiredGate ==
    last.kind = "gated" =>
        LET v == ValidateSession(AU, last.cookie, last.fail) IN
        /\ last.invoked <=> v.err = nil
        /\ v.err \in {ErrNotAuthSession, ErrKeyNotFound, ErrInvalidKey}
            => last.status = 302 /\ last.location = "/login" /\ ~last.invoked
        /\ v.err \notin {nil, ErrNotAuthSession, ErrKeyNotFound, ErrInvalidKey}
            => last.status = 500 /\ ~last.invoked

\* a request with the key of a session whose lifespan has ended
LoginRequiredGateWitness ==
    /\ last.kind = "gated"
    /\ last.cookie.kind = "auth"
    /\ last.cookie.key \in DOMAIN sessions
    /\ sessions[last.cookie.key].expired
    /\ last.fail = "none"
    /\ last.status = 302
    /\ ~last.invoked

LoginAnswered == last.kind = "login" /\ Has(last.calls, "Validate")

\* C2: when the user handler reports ErrUserNotFound and when it reports
\* NoUserID without error, the answer of CheckLogin is the same: status 400,
\* body "Login failed", no redirect, no cookie; no session is created and
\* no error is returned
LoginFailureUniform ==
    (/\ LoginAnswered
     /\ \/ last.checkErr = ErrUserNotFound
        \/ (last.checkErr = nil /\ last.userId = NoUserID))
        => /\ last.status = 400
           /\ last.body = LoginFailed
           /\ last.location = ""
           /\ last.setCookie = NoCookie
           /\ last.created = 0
           /\ ~Has(last.calls, "CreateAuthSession")
           /\ last.err = nil

\* a wrong password for an admin there is
LoginFailureUniformWitness ==
    /\ LoginAnswered
    /\ last.checkErr = nil
    /\ last.userId = NoUserID
    /\ last.status = 400

\* C4: CheckLogin creates a session only for a user id other than NoUserID
\* that Validate returned without error; a 400 answer and an error of
\* Validate come without a session; when CreateAuthSession fails the answer
\* is a 500 without redirect, when it succeeds a 302 to "/"
LoginCreatesSession ==
    /\ \A k \in DOMAIN sessions : sessions[k].user \in 1..(nextAdminId - 1)
    /\ last.kind = "login" =>
        /\ last.created # 0
            => last.checkErr = nil /\ last.userId # NoUserID /\ last.err = nil
        /\ (last.status = 400 \/ last.checkErr # nil)
            => last.created = 0 /\ ~Has(last.calls, "CreateAuthSession")
        /\ (last.checkErr # nil /\ last.checkErr # ErrUserNotFound)
            => last.status = 500
        /\ last.sessionErr # nil
            => last.status = 500 /\ last.location = "" /\ last.created = 0
        /\ (Has(last.calls, "CreateAuthSession") /\ last.sessionErr = nil)
            => /\ last.status = 302
               /\ last.location = "/"
               /\ last.created \in DOMAIN sessions
               /\ sessions[last.created].user = last.userId

\* a login that was given its session
LoginCreatesSessionWitness ==
    /\ last.kind = "login"
    /\ last.created # 0
    /\ last.status = 302

Turned(away) ==
    /\ ~last.invoked
    /\ \/ last.status = 302 /\ last.location = "/login"
       \/ away /\ last.fail = "ValidateSession" /\ last.status = 500

\* C3 as stated: when a password change or a delete of an admin has
\* answered 200 and its DeleteEntriesForUser has not failed, no session that
\* was valid when the request began and belonged to the admin it named is
\* valid any more, and a later request with the key of such a session is
\* not let through by LoginRequired
SessionsOfNamedAdminEnded ==
    /\ ended.ofNamed \cap ValidSessions = {}
    /\ (last.kind = "gated" /\ last.cookie.key \in ended.ofNamed) => Turned(TRUE)

\* C3, amended: when a password change or a delete of an admin has answered
\* 200 and both its GetUserID and its DeleteEntriesForUser have succeeded,
\* no session that was valid when the request began and belonged to the id
\* GetUserID returned is valid any more, whatever logins and other admin
\* requests ran between its calls; a later request with the key of such a
\* session is redirected to /login by LoginRequired (answered 500 when the
\* validation of the session itself fails) and its handler is not invoked
SessionsOfLookedUpAdminEnded ==
    /\ ended.ofLookedUp \cap ValidSessions = {}
    /\ (last.kind = "gated" /\ last.cookie.key \in ended.ofLookedUp) => Turned(TRUE)
    /\ \A x \in AdminsOnTheirWay : x.cookie.key \in DOMAIN x.before

\* a request with the key of a session that a password change ended, sent
\* to the login page
SessionsEndedWitness ==
    /\ last.kind = "gated"
    /\ last.cookie.key \in ended.ofLookedUp
    /\ last.status = 302
    /\ AdminA \in DOMAIN admins
    /\ admins[AdminA].password = NewSecret

-----------------------------------------------------------------------------
(* Properties of the aliases                                                *)

\* a POST to the aliases resource without identifier, its body decoded and
\* every call of the data layer working
AddAliasPosted ==
    /\ last.kind = "api"
    /\ last.handler = "ListAliasesJSON"
    /\ last.r.method = postMethod
    /\ ~IdPresent(last.handler, last.r)
    /\ last.r.body.kind = "json"

\* the source has an empty local part and the name of a stored domain as
\* its domain part
CatchAllSource(source) ==
    /\ ParseMailParts(source).err = nil
    /\ ParseMailParts(source).name = <<>>
    /\ \E k \in DOMAIN domains : domains[k] = ParseMailParts(source).domain

\* C11: add-alias with a catch-all source of an existing domain and a valid
\* destination is not refused and creates the alias; with a destination
\* that fails emailValid it answers 400 and writes nothing
CatchAllAliasAccepted ==
    AddAliasPosted =>
        /\ (/\ CatchAllSource(last.r.body.Source)
            /\ emailValid(last.r.body.Dest) = nil
            /\ last.fail = "none")
            => /\ last.status = 200
               /\ last.calls = <<"AddAlias">>
               /\ last.newId \in DOMAIN aliases
               /\ aliases[last.newId].source = last.r.body.Source
        /\ emailValid(last.r.body.Dest) # nil => Refused400

-----------------------------------------------------------------------------
(* The delete requests next to their goroutines.  A handler is taken in two *)
(* steps, its goroutine being started between its lookup and its call of    *)
(* the data layer, so that the goroutine runs before, while and after the   *)
(* row is deleted and the response written.  The database is the one of a   *)
(* mail server: rows are also written by other tools than this one.         *)

MaxGoroutines == 2

DotDot == <<".", ".">>
DomainDir == getSourcePath(MailDir, DomainAB, <<>>)
UserDir == getSourcePath(MailDir, DomainAB, Str1("u"))

BackupInit ==
    /\ domains = [k \in {1, 2} |-> IF k = 1 THEN DomainAB ELSE DotDot]
    /\ users = [k \in {1, 2, 3} |->
                  [email |-> IF k = 1 THEN MailU
                             ELSE IF k = 2 THEN DotDot \o <<"@">> \o DomainAB
                             ELSE <<"u", "@">> \o DotDot,
                   domain_id |-> IF k = 3 THEN 2 ELSE 1,
                   password |-> GenDovecotSHA512(Secret, "none").hash]]
    /\ aliases = EmptyTable
    /\ nextId = [domains |-> 3, users |-> 4, aliases |-> 1]
    /\ admins = [n \in {Str1("a")} |-> [id |-> 1, password |-> Secret]]
    /\ nextAdminId = 2
    /\ sessions = EmptyTable
    /\ nextKey = 1
    /\ config \in {[Delete |-> d, Backup |-> b] :
                     d \in BOOLEAN, b \in {<<>>, <<"/backup">>}}
    /\ tasks = <<>>
    /\ fs \in {[dirs |-> ds, zips |-> {}] : ds \in {{}, {DomainDir, UserDir}}}
    /\ up = TRUE
    /\ last = Idle
    /\ inflight = {}
    /\ ended = NoneEnded
    /\ valIn = <<>>
    /\ valOut = Pending

\* the identifiers of the rows and one of no row
BackupIds == [ListDomainsJSON |-> {"1", "2", "3"},
              ListUsersJSON |-> {"1", "2", "3", "4"}]

\* DELETE with the identifier of a row, of a row with an unsafe name and of
\* no row, and the GET of the list
BackupRequests(handler) ==
    {[method |-> deleteMethod, path |-> <<Resource[handler], "/", d>>,
      query |-> <<>>, body |-> Body("bad json", <<>>)] :
        d \in BackupIds[handler]}
    \cup {[method |-> getMethod, path |-> <<Resource[handler], "/">>,
            query |-> <<>>, body |-> Body("bad json", <<>>)]}

BackupFails ==
    [ListDomainsJSON |-> {"none", "getDomainName", "DeleteVirtualDomain"},
     ListUsersJSON |-> {"none", "getUserName", "DelMailUser"}]

FsFails == {"none", "Stat", "Create", "writeZip", "Flush", "RemoveAll"}

\* the handler up to the go statement: the lookup is done and the goroutine
\* started
HandlerBegins ==
    /\ up
    /\ last.kind = "none"
    /\ inflight = {}
    /\ \E handler \in DOMAIN BackupFails :
        \E r \in BackupRequests(handler), fail \in BackupFails[handler] :
        \E res \in {Route(handler, World, r, fail)} :
            /\ Len(tasks) + Len(res.spawn) <= MaxGoroutines
            /\ tasks' = tasks \o res.spawn
            /\ inflight' = {[handler |-> handler, r |-> r, fail |-> fail,
                             task |-> IF res.spawn = <<>> THEN 0 ELSE Len(tasks) + 1]}
    /\ UNCHANGED <<domains, users, aliases, nextId, config, fs, up, last,
                   admins, nextAdminId, sessions, nextKey, ended, valVars>>

\* the rest of the handler: the call of the data layer and the response.
\* taskAt is where its goroutine stands when it returns.
HandlerReturns ==
    /\ up
    /\ \E x \in inflight :
        \E res \in {ServeHTTP(Route(x.handler, World, x.r, x.fail))} :
            /\ domains' = res.db.domains
            /\ users' = res.db.users
            /\ aliases' = res.db.aliases
            /\ nextId' = res.db.nextId
            /\ last' = [kind |-> "api", handler |-> x.handler, r |-> x.r,
                        fail |-> x.fail, status |-> res.status, body |-> res.body,
                        csrf |-> res.csrf, calls |-> res.calls, newId |-> res.newId,
                        task |-> x.task,
                        taskAt |-> IF x.task = 0 THEN "none" ELSE tasks[x.task].pc]
            /\ inflight' = {}
    /\ UNCHANGED <<config, tasks, fs, up, admins, nextAdminId, sessions, nextKey,
                   ended, valVars>>

\* a goroutine takes its next step
GoroutineRuns ==
    /\ up
    /\ \E i \in DOMAIN tasks, fail \in FsFails :
        \E st \in {GoroutineStep(tasks[i], config, fs, fail)} :
            /\ tasks[i].pc \in {"start", "zip", "delete"}
            /\ tasks' = [tasks EXCEPT ![i] = st.g]
            /\ fs' = st.fs
    /\ UNCHANGED <<domains, users, aliases, nextId, config, up, last, authVars,
                   valVars>>

\* a goroutine panics while it zips or removes.  The function literal
\* defers no recover, and a panic that no deferred call of its goroutine
\* recovers ends the program.
GoroutinePanics ==
    /\ up
    /\ \E i \in DOMAIN tasks :
        /\ tasks[i].pc \in {"zip", "delete"}
        /\ tasks' = [tasks EXCEPT ![i].pc = "panicked"]
    /\ up' = FALSE
    /\ UNCHANGED <<domains, users, aliases, nextId, config, fs, last, authVars,
                   valVars>>

BackupNext ==
    HandlerBegins \/ HandlerReturns \/ GoroutineRuns \/ GoroutinePanics \/ Respond

SpecBackup == BackupInit /\ [][BackupNext]_vars

-----------------------------------------------------------------------------
(* Properties of the delete requests and their goroutines                   *)

\* a delete by identifier on the domains or the users has been answered
DeleteAnswered ==
    /\ last.kind = "api"
    /\ last.handler \in DOMAIN BackupFails
    /\ TableRow(last.handler, last.r) = "delete"

\* the goroutine the answered request started
Started == tasks[last.task]

\* C12: the response of a delete by identifier on domains and users follows
\* from the delete of the data layer alone: 200 with an empty body when it
\* succeeds, 500 when DelMailUser fails and no response when
\* DeleteVirtualDomain panics, whatever the lookup gave and whether the
\* goroutine had not begun, was running, had failed to zip or to remove or
\* had finished when the handler returned (last.taskAt)
ResponseFollowsDataLayerDelete ==
    DeleteAnswered =>
        /\ last.fail # DeleteCall[last.handler]
            => last.status = 200 /\ last.body = ""
        /\ last.fail = "DelMailUser"
            => last.status = 500 /\ last.body = "Internal Server Error"
        /\ last.fail = "DeleteVirtualDomain" => last.status = -1

\* a delete answered 200 when its goroutine had not begun, the goroutine
\* having failed to zip since
ResponseFollowsDataLayerDeleteWitness ==
    /\ DeleteAnswered
    /\ last.status = 200
    /\ last.task # 0
    /\ last.taskAt = "start"
    /\ Started.backupErr # nil

\* the positions in the calls of goroutine g at which it did op
Did(g, op) == {k \in DOMAIN g.did : g.did[k].op = op}

\* C13: with a backup directory configured, a goroutine calls RemoveAll only
\* after its archive step has returned nil (zipToFile was entered, every
\* call of the archive step precedes the removal), and a goroutine whose
\* archive step failed has ended without calling RemoveAll
RemovalOnlyAfterArchive ==
    config.Backup # <<>> =>
        \A i \in DOMAIN tasks :
            /\ (tasks[i].pc = "delete" \/ Did(tasks[i], "RemoveAll") # {})
                => /\ tasks[i].backupErr = nil
                   /\ Did(tasks[i], "Stat") # {}
                   /\ \A k \in Did(tasks[i], "RemoveAll") :
                        \A j \in Did(tasks[i], "Stat") \cup Did(tasks[i], "Create") : j < k
            /\ tasks[i].backupErr # nil
                => tasks[i].pc \in {"done"} /\ Did(tasks[i], "RemoveAll") = {}

\* one goroutine has removed its directory after zipping it, another one
\* has ended on a zip file it could not write, its directory still there
RemovalOnlyAfterArchiveWitness ==
    /\ config.Backup # <<>>
    /\ \E i \in DOMAIN tasks :
        /\ tasks[i].did # <<>>
        /\ tasks[i].did[Len(tasks[i].did)] = FsCall("RemoveAll", UserDir, TRUE)
        /\ \E k \in Did(tasks[i], "Create") : tasks[i].did[k].ok
    /\ \E i \in DOMAIN tasks :
        /\ tasks[i].backupErr = ErrFS
        /\ tasks[i].pc = "done"
        /\ \E k \in Did(tasks[i], "Create") : tasks[i].did[k].ok
        /\ Exists(fs, tasks[i].did[1].path)

\* C14: a goroutine calls Create or RemoveAll only when appContext.Delete is
\* set and its lookup of the name succeeded: without the flag no delete
\* request starts a goroutine and the disk stays as it was, and a goroutine
\* whose lookup failed ends without a call of the file system
FileSystemOnlyWithFlagAndName ==
    /\ ~config.Delete =>
        /\ tasks = <<>>
        /\ fs.zips = {}
        /\ fs.dirs \in {{}, {DomainDir, UserDir}}
    /\ \A i \in DOMAIN tasks :
        /\ tasks[i].lookupErr # nil
            => tasks[i].did = <<>> /\ tasks[i].pc \in {"start", "done"}
        /\ tasks[i].did # <<>> => config.Delete /\ tasks[i].lookupErr = nil

\* the delete of a row that is not there has been answered 200, its
\* goroutine has ended on the failed lookup and the directories are
\* untouched, another goroutine having zipped before
FileSystemOnlyWithFlagAndNameWitness ==
    /\ DeleteAnswered
    /\ last.status = 200
    /\ last.task # 0
    /\ Started.lookupErr = ErrNoRows
    /\ Started.pc = "done"
    /\ fs.dirs = {DomainDir, UserDir}
    /\ fs.zips # {}

\* the components goroutine g puts into its paths
Components(g) == IF g.kind = "domain" THEN {g.domain} ELSE {g.domain, g.user}

\* C15: every path a goroutine hands to the file system, for the archive
\* or for the removal, is built from a domain and a user without "..", "/"
\* and "\": a goroutine with such a component makes no call of the file
\* system, and its archive step and its removal end on the error of
\* containsInvalidParts
NoPathFromUnsafeComponent ==
    \A i \in DOMAIN tasks :
        /\ tasks[i].did # <<>>
            => /\ \A c \in Components(tasks[i]) : containsInvalidParts(c) = nil
               /\ \A k \in DOMAIN tasks[i].did :
                    ~Contains(tasks[i].did[k].path, DotDot)
        /\ (\E c \in Components(tasks[i]) : containsInvalidParts(c) # nil)
            => /\ tasks[i].backupErr \in {nil, ErrInvalidParts}
               /\ tasks[i].delErr \in {nil, ErrInvalidParts}
               /\ (tasks[i].pc = "done" /\ tasks[i].lookupErr = nil)
                    => ErrInvalidParts \in {tasks[i].backupErr, tasks[i].delErr}

\* the goroutine of the user "..@a.b" has ended on the refusal of its
\* removal, no backup directory being configured and the directories being
\* as they were
NoPathFromUnsafeComponentWitness ==
    /\ config.Backup = <<>>
    /\ fs.dirs = {DomainDir, UserDir}
    /\ \E i \in DOMAIN tasks :
        /\ tasks[i].kind = "user"
        /\ tasks[i].user = DotDot
        /\ tasks[i].pc = "done"
        /\ tasks[i].delErr = ErrInvalidParts
        /\ tasks[i].did = <<>>

\* goroutine g looked for its source directory and found none
NothingToArchive(g) == \E k \in Did(g, "Stat") : ~g.did[k].ok

\* C16: with a backup directory configured, a goroutine whose source
\* directory is not on the disk gets nil from its archive step and has
\* created no zip file, and its delete request is answered 200 when the
\* data layer has deleted the row
NothingToArchiveIsNoError ==
    /\ \A i \in DOMAIN tasks :
        NothingToArchive(tasks[i])
            => /\ config.Backup # <<>>
               /\ tasks[i].backupErr = nil
               /\ Did(tasks[i], "Create") = {}
               /\ tasks[i].pc \in {"delete", "done", "panicked"}
    /\ (/\ DeleteAnswered
        /\ last.task # 0
        /\ NothingToArchive(Started)
        /\ last.fail # DeleteCall[last.handler])
        => last.status = 200
    /\ (\A i \in DOMAIN tasks : NothingToArchive(tasks[i]) \/ tasks[i].did = <<>>)
        => fs.zips = {}

\* the user u@a.b has been deleted with 200, nothing of it being on the
\* disk: the goroutine has found no directory, made no zip file and ended
NothingToArchiveIsNoErrorWitness ==
    /\ DeleteAnswered
    /\ last.handler = "ListUsersJSON"
    /\ last.status = 200
    /\ last.task # 0
    /\ 1 \notin DOMAIN users
    /\ NothingToArchive(Started)
    /\ Started.user = Str1("u")
    /\ Started.pc = "done"
    /\ Started.delErr = nil
    /\ fs.zips = {}

\* C17: a panic inside a goroutine of a delete request stays inside it: the
\* serving process keeps running, so that the request that started the
\* goroutine and every other request are still answered
PanicStaysInsideGoroutine ==
    (\E i \in DOMAIN tasks : tasks[i].pc = "panicked") => up

-----------------------------------------------------------------------------
(* ListAllUsers with its two goroutines interleaved.  The frame of the call *)
(* is kept in inflight: the variables the goroutines share, where each of   *)
(* them stands and which one was done first.  A map that is nil is kept as  *)
(* the empty one, the error next to it telling the two apart.               *)

MaxAliases == 2

MailV == <<"v", "@">> \o DomainAB
MailW == <<"w", "@">> \o DomainAB

\* alias rows: of a mailbox, of an address without mailbox, catch-all and
\* with a source that is no address
AliasRows ==
    {[source |-> s, destination |-> d, domain_id |-> 1] :
        s \in {MailU, MailW, <<"@">> \o DomainAB, Str1("x")}, d \in {MailU, MailV}}

ListInit ==
    /\ domains = [k \in {1} |-> DomainAB]
    /\ \E n \in 0..2 :
        users = [k \in 1..n |->
                    [email |-> IF k = 1 THEN MailU ELSE MailV, domain_id |-> 1,
                     password |-> GenDovecotSHA512(Secret, "none").hash]]
    /\ \E n \in 0..MaxAliases : aliases \in [1..n -> AliasRows]
    /\ nextId = [domains |-> 2, users |-> Cardinality(DOMAIN users) + 1,
                 aliases |-> Cardinality(DOMAIN aliases) + 1]
    /\ admins = [n \in {Str1("a")} |-> [id |-> 1, password |-> Secret]]
    /\ nextAdminId = 2
    /\ sessions = EmptyTable
    /\ nextKey = 1
    /\ config = [Delete |-> FALSE, Backup |-> <<>>]
    /\ tasks = <<>>
    /\ fs = [dirs |-> {}, zips |-> {}]
    /\ up = TRUE
    /\ last = Idle
    /\ inflight = {}
    /\ ended = NoneEnded
    /\ valIn = <<>>
    /\ valOut = Pending

ListUnchanged ==
    UNCHANGED <<apiVars, admins, nextAdminId, sessions, nextKey, ended, valVars>>

\* the call up to wg.Wait(): both goroutines started
ListAllUsersBegins ==
    /\ last.kind = "none"
    /\ inflight = {}
    /\ \E domainID \in {-1, 1, 2}, fails \in SUBSET {"ListVirtualUsers", "ListVirtualAliases"} :
        inflight' = {[domainID |-> domainID, fails |-> fails,
                      virtualUsers |-> EmptyTable, usersErr |-> nil,
                      virtualAliases |-> EmptyTable, aliasErr |-> nil,
                      res |-> EmptyTable,
                      users |-> "query", aliases |-> "query", first |-> "none"]}
    /\ UNCHANGED last
    /\ ListUnchanged

Done(x, goroutine) == IF x.first = "none" THEN goroutine ELSE x.first

\* the first goroutine calls ListVirtualUsers
UsersListed ==
    /\ \E x \in inflight :
        \E l \in {ListVirtualUsers(DB, x.domainID,
                        IF "ListVirtualUsers" \in x.fails THEN "ListVirtualUsers"
                        ELSE "none")} :
            /\ x.users = "query"
            /\ inflight' = {IF l.err # nil
                            THEN [x EXCEPT !.usersErr = l.err, !.users = "done",
                                           !.first = Done(x, "users")]
                            ELSE [x EXCEPT !.virtualUsers = l.res, !.users = "range"]}
    /\ UNCHANGED last
    /\ ListUnchanged

\* the first goroutine puts the next user of its range into res, or is done
UsersRanged ==
    /\ \E x \in inflight :
        /\ x.users = "range"
        /\ LET left == {k \in DOMAIN x.virtualUsers :
                            x.virtualUsers[k].email \notin DOMAIN x.res} IN
           IF left = {}
           THEN inflight' = {[x EXCEPT !.users = "done", !.first = Done(x, "users")]}
           ELSE \E userID \in left :
                    inflight' = {[x EXCEPT !.res =
                        [m \in (DOMAIN @) \cup {x.virtualUsers[userID].email} |->
                            IF m \in DOMAIN @ THEN @[m]
                            ELSE NewListResultForVirtualUser(<<m>>, userID)]]}
    /\ UNCHANGED last
    /\ ListUnchanged

\* the second goroutine calls ListVirtualAliases and is done
AliasesListed ==
    /\ \E x \in inflight :
        \E l \in {ListVirtualAliases(DB, x.domainID,
                        IF "ListVirtualAliases" \in x.fails THEN "ListVirtualAliases"
                        ELSE "none")} :
            /\ x.aliases = "query"
            /\ inflight' = {[x EXCEPT !.virtualAliases = l.res,
                                      !.aliasErr = l.err, !.aliases = "done",
                                      !.first = Done(x, "aliases")]}
    /\ UNCHANGED last
    /\ ListUnchanged

WaitForTheUsers(x) == x.users = "done"

\* wg.Wait() after wg.Add(2): both goroutines have run their wg.Done()
Wait(x) == x.users = "done" /\ x.aliases = "done"

\* wg.Wait() returns and the call ends
ListAllUsersReturns ==
    /\ \E x \in inflight :
        /\ Wait(x)
        /\ \E ret \in {ListAllUsersMerge(x.usersErr, x.aliasErr, x.res,
                                          x.virtualAliases)} :
            last' = [kind |-> "list", res |-> ret.res, isNil |-> ret.isNil,
                     err |-> ret.err, call |-> x]
    /\ inflight' = {}
    /\ ListUnchanged

ListNext ==
    \/ ListAllUsersBegins
    \/ UsersListed
    \/ UsersRanged
    \/ AliasesListed
    \/ ListAllUsersReturns
    \/ Respond

SpecList == ListInit /\ [][ListNext]_vars

\* a goroutine that can run is run: the caller blocked in wg.Wait() goes on
\* once the counter is zero, and its merge ranges over a finite map
SpecListFair == SpecList /\ WF_vars(ListAllUsersReturns)

-----------------------------------------------------------------------------
(* Properties of ListAllUsers                                               *)

Returned == last.kind = "list"

\* C18: when ListVirtualUsers or ListVirtualAliases has failed in its
\* goroutine, ListAllUsers returns the error (the one of the users first)
\* and the nil map, whichever of the two failed, whichever goroutine was
\* done first and whatever the first goroutine had put into res
ErrorAndNoMap ==
    Returned =>
        /\ last.call.usersErr # nil
            => last.err = last.call.usersErr /\ last.isNil /\ last.res = EmptyTable
        /\ (last.call.usersErr = nil /\ last.call.aliasErr # nil)
            => last.err = last.call.aliasErr /\ last.isNil /\ last.res = EmptyTable
        /\ last.err # nil => last.isNil
        /\ last.call.fails # {} => last.err = ErrDB

\* the aliases could not be listed and their goroutine was done first; the
\* users were listed and both are in res: nothing of it is returned
ErrorAndNoMapWitness ==
    /\ Returned
    /\ last.call.aliasErr = ErrDB
    /\ last.call.usersErr = nil
    /\ last.call.first = "aliases"
    /\ DOMAIN last.call.res = {MailU, MailV}
    /\ last.isNil
    /\ last.err = ErrDB

\* the aliases ListVirtualAliases gave to the returned call
Listed == last.call.virtualAliases

\* C19: in the map ListAllUsers returns, the entry of a mailbox carries
\* exactly the aliases whose destination is the mailbox (catch-all aliases
\* left aside); an address that is the source of aliases and has no mailbox
\* has an entry with nil user and identifier -1; a catch-all source has no
\* entry
MailboxCarriesAliasesPointingToIt ==
    (Returned /\ last.err = nil) =>
        /\ \A m \in DOMAIN last.res :
            /\ last.res[m].VirtualUser # <<>>
                => last.res[m].AliasFor
                    = {k \in DOMAIN Listed :
                        /\ Listed[k].destination = m
                        /\ ParseMailParts(Listed[k].source).name # <<>>}
            /\ last.res[m].VirtualUser = <<>>
                => /\ last.res[m].VirtualUserID = -1
                   /\ last.res[m].AliasFor # {}
                   /\ \A k \in last.res[m].AliasFor : k \in DOMAIN Listed
            /\ ParseMailParts(m).name # <<>>
        /\ \A k \in DOMAIN Listed :
            ParseMailParts(Listed[k].source).name # <<>>
                => Listed[k].source \in DOMAIN last.res

-----------------------------------------------------------------------------
(* Properties of the steps whose failure is only logged                     *)

\* two results a client and the tables cannot tell apart but for the cookie
\* and the sessions ended
SameAnswer(a, b) ==
    /\ a.status = b.status
    /\ a.body = b.body
    /\ a.location = b.location
    /\ a.invoked = b.invoked
    /\ Has(a.calls, "UpdatePassword") = Has(b.calls, "UpdatePassword")
    /\ Has(a.calls, "DeleteUser") = Has(b.calls, "DeleteUser")

\* in the state as it is, the rest of each request gives the same answer
\* and leaves the same admins whether or not its step fails: Save in
\* LoginRequired and in CheckLogin, and the steps of steps(q) in a password
\* change or delete of an admin
UnchangedBy(steps(_)) ==
    /\ \A cookie \in {NoCookie} \cup {AuthCookie(k, "true", "default") : k \in 1..MaxKeys} :
        LET page == RenderTemplate(World, "none") IN
        SameAnswer(ServeHTTP(LoginRequired(World, cookie, "Save", page)),
                   ServeHTTP(LoginRequired(World, cookie, "none", page)))
    /\ \A x \in Logins :
        LET failed == CheckLoginSession(World, x.q.res, x.cookie.remember, "Save")
            worked == CheckLoginSession(World, x.q.res, x.cookie.remember, "none")
        IN
        SameAnswer(ServeHTTP(failed), ServeHTTP(worked)) /\ failed.au = worked.au
    /\ \A x \in AdminsOnTheirWay :
        LET worked == RunAdmin(AU, x.q, "none") IN
        \A step \in steps(x.q) :
            LET failed == RunAdmin(AU, x.q, step) IN
            /\ SameAnswer(ServeHTTP(failed), ServeHTTP(worked))
            /\ failed.au.admins = worked.au.admins

LoggedOnly == {"GetUserID", "DeleteEntriesForUser"}

\* the steps of request q that come after its write
AfterTheWrite(q) ==
    IF q.op = "changeAdminPassword" THEN LoggedOnly ELSE {"DeleteEntriesForUser"}

AnyLoggedStep(q) == LoggedOnly

\* C20: a Save that fails in LoginRequired or in CheckLogin, and a
\* GetUserID or DeleteEntriesForUser that fails in a password change or in
\* a delete of an admin, leave status, body, redirect, the invocation of
\* the wrapped handler and the write to the admin table as they are when
\* the step works
BestEffortFailuresStayQuietEverywhere == UnchangedBy(AnyLoggedStep)

\* C20, amended: the same for Save in LoginRequired and in CheckLogin, for
\* GetUserID and DeleteEntriesForUser in a password change of an admin and
\* for DeleteEntriesForUser in a delete of an admin; the delete looks the
\* id up before it deletes
BestEffortFailuresStayQuiet == UnchangedBy(AfterTheWrite)

\* a password change has been answered 200 although the lookup of the id
\* failed after the update: the new password is stored
BestEffortFailuresStayQuietWitness ==
    /\ last.kind = "admin"
    /\ last.fail = "GetUserID"
    /\ last.calls = <<"UpdatePassword", "GetUserID">>
    /\ last.status = 200
    /\ AdminA \in DOMAIN admins
    /\ admins[AdminA].password = NewSecret

-----------------------------------------------------------------------------
(* Properties of the failures of the data store                             *)

\* the call the data store refused has been made by the answered request
StoreFailed ==
    /\ last.kind = "api"
    /\ last.fail # "none"
    /\ \/ Has(last.calls, last.fail)
       \/ /\ Has(last.calls, "ListAllUsers")
          /\ last.fail \in {"ListVirtualUsers", "ListVirtualAliases"}

\* C21: a request whose call of the data store failed is answered 500 with
\* the body "Internal Server Error" and nothing else, the delete of a
\* domain included
StoreFailureIsOpaque500 ==
    StoreFailed => last.status = 500 /\ last.body = "Internal Server Error"

-----------------------------------------------------------------------------
(* Properties of remember-me                                                *)

\* the session has been persisted by the answered request
Persisted == last.kind \in {"login", "gated"} /\ last.setCookie.kind = "auth"

-----------------------------------------------------------------------------
(* Properties of the tables                                                 *)

\* what list-domains gives in the state as it is
DomainsListed == ListVirtualDomains(DB, "none").res

\* the step is a request on the domains answered 200
DomainsStep(method) ==
    /\ last.kind = "none"
    /\ last'.kind = "api"
    /\ last'.handler = "ListDomainsJSON"
    /\ last'.r.method = method
    /\ last'.status = 200

\* C23: an add-domain answered 200 with identifier i for the name n puts the
\* pair i -> n into what list-domains gives next, a delete-domain of i
\* answered 200 takes i out of it, and both leave the pairs of the other
\* domains as they were
DomainRoundTrip ==
    [][/\ (DomainsStep(postMethod)
            => (/\ last'.newId \notin DOMAIN DomainsListed
                /\ DOMAIN DomainsListed' = (DOMAIN DomainsListed) \cup {last'.newId}
                /\ DomainsListed'[last'.newId] = last'.r.body.DomainName
                /\ \A k \in DOMAIN DomainsListed : DomainsListed'[k] = DomainsListed[k]))
       /\ (DomainsStep(deleteMethod)
            => (LET i == parseListDomainURL(URLString(last'.r)).id IN
                /\ DOMAIN DomainsListed' = (DOMAIN DomainsListed) \ {i}
                /\ \A k \in DOMAIN DomainsListed' : DomainsListed'[k] = DomainsListed[k]))
       /\ (DomainsStep(getMethod) => DomainsListed' = DomainsListed)]_vars

\* the domain c.d has been added with identifier 2 and the domain a.b
\* deleted after it, the domain c.d being listed as before
DomainRoundTripWitness ==
    /\ last.kind = "api"
    /\ last.handler = "ListDomainsJSON"
    /\ last.r.method = deleteMethod
    /\ last.status = 200
    /\ parseListDomainURL(URLString(last.r)).id = 1
    /\ DomainsListed = [k \in {2} |-> <<"c", ".", "d">>]

\* the row carries the id of a stored domain named as the domain part of
\* the address
BelongsTo(row, address) ==
    /\ row.domain_id \in DOMAIN domains
    /\ ParseMailParts(address).err = nil
    /\ domains[row.domain_id] = ParseMailParts(address).domain

\* the domain part of the address names no stored domain
NamesNoDomain(address) ==
    \/ ParseMailParts(address).err # nil
    \/ \A k \in DOMAIN domains : domains[k] # ParseMailParts(address).domain

\* the step is an add-user or add-alias for an address of no stored domain
AddForUnknownDomain ==
    /\ last.kind = "none"
    /\ last'.kind = "api"
    /\ last'.r.method = postMethod
    /\ last'.r.body.kind = "json"
    /\ \/ last'.handler = "ListUsersJSON" /\ NamesNoDomain(last'.r.body.Mail)
       \/ last'.handler = "ListAliasesJSON" /\ NamesNoDomain(last'.r.body.Source)

-----------------------------------------------------------------------------
(* Properties of logout                                                     *)

\* the cookie names no session that is valid
NoValidSession(cookie) == ValidateSession(AU, cookie, "none").err # nil

\* C25: a logout asked for when the cookie names no valid session any more,
\* as after a first logout, is answered with the redirect to the login page
\* and not with 500; and a key a logout has deleted is in the store no
\* longer, so that no cookie with it passes LoginRequired
LogoutIdempotent ==
    /\ (last.kind = "logout" /\ last.fail = "none" /\ NoValidSession(last.cookie))
        => (last.status = 302 /\ last.location = "/login")
    /\ \A k \in ended.loggedOut :
        /\ k \notin DOMAIN sessions
        /\ \A m \in RememberValues :
            ~LoginRequired(World, AuthCookie(k, m, "default"), "none",
                           RenderTemplate(World, "none")).invoked

\* the second logout with the cookie of a session a first logout has ended
LogoutIdempotentWitness ==
    /\ last.kind = "logout"
    /\ last.fail = "none"
    /\ last.cookie.kind = "auth"
    /\ last.cookie.key \in ended.loggedOut
    /\ ~last.invoked
    /\ last.status = 302

-----------------------------------------------------------------------------
(* Properties of the two goroutines of ListAllUsers                         *)

\* both goroutines of the call have done all of their work: each has its
\* error exactly when its query failed, the first has put every mailbox into
\* res and the second has all the aliases
Completed(x) ==
    /\ x.users = "done"
    /\ x.aliases = "done"
    /\ x.usersErr # nil <=> "ListVirtualUsers" \in x.fails
    /\ x.aliasErr # nil <=> "ListVirtualAliases" \in x.fails
    /\ x.usersErr = nil
        => LET all == ListVirtualUsers(DB, x.domainID, "none").res IN
           /\ x.virtualUsers = all
           /\ DOMAIN x.res = {all[k].email : k \in DOMAIN all}
    /\ x.aliasErr = nil
        => x.virtualAliases = ListVirtualAliases(DB, x.domainID, "none").res

\* C26: when ListAllUsers merges and returns, the goroutine of the
\* mailboxes and the goroutine of the aliases have both run to their end,
\* also when the other one has failed; before that only the goroutine of
\* the mailboxes writes the result map; and once both goroutines are done
\* the call returns
BothTasksCompleteBeforeMerge ==
    /\ [](Returned => Completed(last.call))
    /\ [][\A x \in inflight, y \in inflight' : y.res # x.res => x.users = "range"]_vars
    /\ ((\E x \in inflight : Wait(x)) ~> Returned)

\* the mailboxes could not be listed and their goroutine was done first;
\* the aliases were listed all the same before the call returned
BothTasksCompleteBeforeMergeWitness ==
    /\ Returned
    /\ last.call.first = "users"
    /\ last.call.usersErr = ErrDB
    /\ last.call.aliasErr = nil
    /\ Cardinality(DOMAIN last.call.virtualAliases) = MaxAliases

-----------------------------------------------------------------------------
(* Properties of the two paths of the users                                 *)

\* a GET or POST on the users without an identifier, with or without the
\* closing slash
UsersWithoutIdentifier ==
    /\ last.kind = "api"
    /\ last.handler = "ListUsersJSON"
    /\ last.r.method \in {getMethod, postMethod}
    /\ last.r.path \in {<<"/api/users">>, <<"/api/users", "/">>}

\* C27: a GET and a POST to /api/users and to /api/users/ are handled by
\* ListUsersJSON as requests without identifier, and none of them is
\* answered 404
BothPathFormsWithoutIdentifier ==
    UsersWithoutIdentifier
        => /\ parseListUsersURL(URLString(last.r)).err = errNoID
           /\ last.status # 404

-----------------------------------------------------------------------------
(* Properties of the lookup of the name                                     *)

\* what a goroutine is started with
StartedWith(g) ==
    [kind |-> g.kind, id |-> g.id, domain |-> g.domain, user |-> g.user,
     lookupErr |-> g.lookupErr]

\* the lookup of a row that is in its table, the database answering
LookupOfStoredRow(g, fail) ==
    \/ g.kind = "domain" /\ g.id \in DOMAIN domains /\ fail # "getDomainName"
    \/ g.kind = "user" /\ g.id \in DOMAIN users /\ fail # "getUserName"

\* the name the row of the goroutine has in the tables
NameOfRow(g) ==
    IF g.kind = "domain" THEN [domain |-> domains[g.id], user |-> <<>>]
    ELSE [domain |-> ParseMailParts(users[g.id].email).domain,
          user |-> ParseMailParts(users[g.id].email).name]

\* C28: in a delete of a domain or of a user the name is looked up before
\* the delete of the data layer is issued: the step that starts the
\* goroutine leaves the tables as they are and gives it the name the row has
\* in them, so that the lookup of a stored row does not fail with "no rows"
\* because of the delete of the same request; and from then on the goroutine
\* keeps the name it was started with
LookupPrecedesDelete ==
    [][/\ Len(tasks') > Len(tasks)
            => (LET g == tasks'[Len(tasks')] IN
                /\ UNCHANGED <<domains, users, aliases>>
                /\ \A x \in inflight' :
                    /\ g.lookupErr = ErrNoRows => ~LookupOfStoredRow(g, "none")
                    /\ LookupOfStoredRow(g, x.fail) /\ g.lookupErr = nil
                        => (g.domain = NameOfRow(g).domain /\ g.user = NameOfRow(g).user)
                    /\ (g.kind = "domain" /\ LookupOfStoredRow(g, x.fail))
                        => g.lookupErr = nil)
       /\ \A i \in DOMAIN tasks : StartedWith(tasks'[i]) = StartedWith(tasks[i])]_vars

\* the domain a.b was deleted by the request answered last, and its
\* goroutine, started with the name looked up before, has removed the
\* directory of a.b
LookupPrecedesDeleteWitness ==
    /\ DeleteAnswered
    /\ last.task # 0
    /\ last.status = 200
    /\ Started.kind = "domain"
    /\ Started.id \notin DOMAIN domains
    /\ Started.lookupErr = nil
    /\ Started.domain = DomainAB
    /\ Started.pc = "done"
    /\ Did(Started, "RemoveAll") # {}

\* the delete of the data layer of the answered request has failed
DataLayerDeleteFailed ==
    /\ DeleteAnswered
    /\ last.fail \in {"DeleteVirtualDomain", "DelMailUser"}
    /\ last.status # 200

\* C29: a goroutine removes the directory only of a row its request has
\* deleted: when the delete of the data layer has failed, the goroutine the
\* request started calls no RemoveAll
RemovalOnlyForDeletedRow ==
    (DataLayerDeleteFailed /\ last.task # 0) => Did(Started, "RemoveAll") = {}

-----------------------------------------------------------------------------
(* The archives of two subjects: getDestPath applied to names the          *)
(* validators accept                                                        *)

MaxDomainLen == 5
MaxUserLen == 3

DestAlphabet == {"a", ".", "-"}

\* a domain as addDomain accepts it, and a mailbox as addMail accepts it,
\* split as getUserName splits it; the user of a domain is the empty string
DestSubjects ==
    {[domain |-> d, user |-> <<>>] :
        d \in {s \in StringsUpTo(DestAlphabet, MaxDomainLen) :
                    s # <<>> /\ domainNameValid(s) = nil}}
    \cup {[domain |-> ParseMailParts(m).domain, user |-> ParseMailParts(m).name] :
            m \in {x \in {u \o <<"@">> \o d :
                                u \in StringsUpTo({"a", "-"}, MaxUserLen),
                                d \in {<<"a", ".", "a">>, <<"a", ".", "a", "-", "a">>}} :
                        emailValid(x) = nil}}

\* two subjects with a backup directory configured
DestInit ==
    /\ valIn \in DestSubjects \X DestSubjects
    /\ valOut = Pending
    /\ domains = EmptyTable
    /\ users = EmptyTable
    /\ aliases = EmptyTable
    /\ nextId = [domains |-> 1, users |-> 1, aliases |-> 1]
    /\ admins = EmptyTable
    /\ nextAdminId = 1
    /\ sessions = EmptyTable
    /\ nextKey = 1
    /\ config = [Delete |-> TRUE, Backup |-> <<"/backup">>]
    /\ tasks = <<>>
    /\ fs = [dirs |-> {}, zips |-> {}]
    /\ up = TRUE
    /\ last = Idle
    /\ inflight = {}
    /\ ended = NoneEnded

\* the paths of their archives
ApplyGetDestPath ==
    /\ valOut = Pending
    /\ valOut' = [fn |-> "getDestPath", err |-> nil,
                  paths |-> [i \in 1..2 |->
                                getDestPath(config.Backup, valIn[i].domain,
                                            valIn[i].user)]]
    /\ UNCHANGED <<valIn, apiVars, authVars, last>>

DestNext == ApplyGetDestPath

SpecDest == DestInit /\ [][DestNext]_vars

\* C30: the archives of two different subjects, two domains, two mailboxes
\* or a domain and a mailbox with names the validators accept, have
\* different paths
ArchivesNeverCollide ==
    (valOut.fn = "getDestPath" /\ valIn[1] # valIn[2])
        => valOut.paths[1] # valOut.paths[2]

====
